---- MODULE Spec2Model ----
(***************************************************************************)
(* A model of the MLab interpreter (picosaur/MLab): the recursive-descent  *)
(* parser (src/src/MLabParser.cpp), the tree-walking evaluator             *)
(* (src/src/MLabEngine.cpp), the environments (src/src/MLabEnvironment.cpp)*)
(* and the reference-counted value layer (src/src/MLabValue.cpp).          *)
(*                                                                         *)
(* The module holds several specifications over one set of variables:      *)
(*   SpecParse  - Parser::parse on token sequences, then Engine::execNode  *)
(*                on the tree it built;                                    *)
(*   Spec       - Engine::eval on syntax trees, one call after another on  *)
(*                one engine;                                              *)
(*   SpecValue  - MValue headers sharing DataBuffers (copy-on-write).      *)
(* A specification leaves the variables of the others at their idle value. *)
(***************************************************************************)
EXTENDS Integers, Sequences, FiniteSets, TLC

VARIABLES
    src_,           \* Lexer::src_ : the source text, a sequence of characters
    tokens_,        \* Parser::tokens_ : the token vector handed to the parser
    ast,            \* the root BLOCK Parser::parse returned (NullNode before / on error)
    parseStatus,    \* "none" | "ok" | "error" (a parse error was thrown)
    globalEnv_,     \* Engine::globalEnv_ : the root scope [vars, globals]
    globalStore_,   \* Engine::globalStore_ : name -> value
    userFuncs_,     \* Engine::userFuncs_ : name -> UserFunction
    currentRecursionDepth_,  \* Engine::currentRecursionDepth_
    maxRecursionDepth_,      \* Engine::maxRecursionDepth_
    anonCounter_,   \* Engine::anonCounter_
    anonSite,       \* history: anonymous function -> where it was created
    evalCount,      \* the number of top-level evaluations made on the engine
    lastProgram,    \* the index of the program evaluated last (0: none yet)
    lastStatus,     \* how the last evaluation ended: "ok", "error", or a signal
    lastValue,      \* the value the last evaluation returned
    output,         \* the names the last evaluation displayed
    vars_,          \* Environment::vars_ of one scope: name -> MValue object
    buffers,        \* the DataBuffers alive on the heap: address -> [refCount, data]
    lastOp          \* history: the statement executed last on vars_

parserVars == <<src_, tokens_, ast, parseStatus>>

engineVars == <<globalEnv_, globalStore_, userFuncs_, currentRecursionDepth_,
                maxRecursionDepth_, anonCounter_, anonSite, evalCount, lastProgram,
                lastStatus, lastValue, output>>

valueVars == <<vars_, buffers, lastOp>>

vars == <<parserVars, engineVars, valueVars>>

\* No statement has run on the value layer: no variable, no buffer.
ValueIdle ==
    /\ vars_ = <<>>
    /\ buffers = <<>>
    /\ lastOp = [target |-> "", mutation |-> FALSE, shared |-> FALSE]

(***************************************************************************)
(* AST nodes (include/MLabAst.hpp, struct ASTNode).  elseBranch is a       *)
(* sequence of zero or one node (the null / non-null unique_ptr).          *)
(***************************************************************************)
makeNode(t) ==
    [type |-> t, strValue |-> "", numValue |-> 0, boolValue |-> FALSE,
     suppressOutput |-> FALSE, children |-> <<>>, paramNames |-> <<>>,
     returnNames |-> <<>>, branches |-> <<>>, elseBranch |-> <<>>]

NullNode == makeNode("NULL")

(***************************************************************************)
(* Tokens (include/MLabLexer.hpp, struct Token): type and text.            *)
(***************************************************************************)
Tok(t, v) == [type |-> t, value |-> v]

EOFTok == Tok("END_OF_INPUT", "")

\* Parser::current : the token at pos_, the last token when pos_ is past the end.
\* Positions are 1-based here (pos_ + 1).
current(toks, pos) == IF pos > Len(toks) THEN toks[Len(toks)] ELSE toks[pos]

\* Parser::peekToken(off)
peekToken(toks, pos, off) ==
    IF pos + off > Len(toks) THEN toks[Len(toks)] ELSE toks[pos + off]

\* Parser::check
check(toks, pos, t) == current(toks, pos).type = t

\* Parser::isAtEnd
isAtEnd(toks, pos) == current(toks, pos).type = "END_OF_INPUT"

\* Results of a parse function: the node built and the new pos_, or a thrown
\* parse error (ok = FALSE).
POk(n, p) == [ok |-> TRUE, node |-> n, pos |-> p]
PErr(p) == [ok |-> FALSE, node |-> NullNode, pos |-> p]

\* Parser::skipNewlines : skips NEWLINE and SEMICOLON tokens (not COMMA).
RECURSIVE skipNewlines(_, _)
skipNewlines(toks, pos) ==
    IF ~isAtEnd(toks, pos) /\ current(toks, pos).type \in {"NEWLINE", "SEMICOLON"}
    THEN skipNewlines(toks, pos + 1)
    ELSE pos

\* Parser::skipTerminators : skips NEWLINE, SEMICOLON and COMMA tokens.
RECURSIVE skipTerminators(_, _)
skipTerminators(toks, pos) ==
    IF ~isAtEnd(toks, pos)
       /\ current(toks, pos).type \in {"NEWLINE", "SEMICOLON", "COMMA"}
    THEN skipTerminators(toks, pos + 1)
    ELSE pos

\* Parser::parseDouble (std::stod) on the literals the inputs hold.
parseDouble(text) ==
    CASE text = "0" -> 0
      [] text = "1" -> 1
      [] text = "2" -> 2
      [] text = "3" -> 3
      [] text = "4" -> 4
      [] OTHER -> 0

BinaryNode(op, l, r) ==
    [makeNode("BINARY_OP") EXCEPT !.strValue = op, !.children = <<l, r>>]

UnaryNode(op, c) ==
    [makeNode("UNARY_OP") EXCEPT !.strValue = op, !.children = <<c>>]

RECURSIVE parseOr(_, _)
RECURSIVE parseOrLoop(_, _, _, _)
RECURSIVE parseOrNext(_, _, _, _)
RECURSIVE parseAnd(_, _)
RECURSIVE parseAndLoop(_, _, _, _)
RECURSIVE parseAndNext(_, _, _, _)
RECURSIVE parseComparison(_, _)
RECURSIVE parseComparisonLoop(_, _, _, _)
RECURSIVE parseComparisonNext(_, _, _, _)
RECURSIVE parseColon(_, _)
RECURSIVE parseColonLoop(_, _, _)
RECURSIVE parseColonNext(_, _, _)
RECURSIVE parseAddSub(_, _)
RECURSIVE parseAddSubLoop(_, _, _, _)
RECURSIVE parseAddSubNext(_, _, _, _)
RECURSIVE parseMulDiv(_, _)
RECURSIVE parseMulDivLoop(_, _, _, _)
RECURSIVE parseMulDivNext(_, _, _, _)
RECURSIVE parseUnary(_, _)
RECURSIVE parsePower(_, _)
RECURSIVE parsePowerTail(_, _)
RECURSIVE parsePostfix(_, _)
RECURSIVE parsePostfixLoop(_, _)
RECURSIVE parseCallArgs(_, _, _)
RECURSIVE parsePrimary(_, _)
RECURSIVE parseArrayLiteral(_, _)
RECURSIVE parseArrayLoop(_, _, _, _)

\* The value of "left" in the loop of a binary level once the operand right has
\* been parsed: right itself for the first operand (op = ""), and
\* binary(op, left, right) after an operator.
Joined(op, left, right) ==
    IF op = "" THEN right ELSE BinaryNode(op, left, right)

\* "return unary(op, operand)" in Parser::parseUnary; op = "" for no operator
\* and for the dropped unary '+'.
UnaryResult(op, r) ==
    IF r.ok /\ op # "" THEN POk(UnaryNode(op, r.node), r.pos) ELSE r

\* Parser::consume(RPAREN) after the sub-parse r: an error when ')' is missing.
consumeRParen(toks, r) ==
    IF ~r.ok THEN r
    ELSE IF check(toks, r.pos, "RPAREN") THEN POk(r.node, r.pos + 1)
    ELSE PErr(r.pos)

\* Parser::parseExpression
parseExpression(toks, pos) == parseOr(toks, pos)

\* Parser::parseOr : one level for both '|' (OR) and '||' (OR_SHORT).  The loop
\* parses the operand at pos; op and left are the operator and the left-hand
\* side read before it.  Next continues with the result r of that operand.
parseOrNext(toks, op, left, r) ==
    IF ~r.ok THEN r
    ELSE IF check(toks, r.pos, "OR") \/ check(toks, r.pos, "OR_SHORT")
    THEN parseOrLoop(toks, current(toks, r.pos).value, Joined(op, left, r.node),
                     r.pos + 1)
    ELSE POk(Joined(op, left, r.node), r.pos)

parseOrLoop(toks, op, left, pos) ==
    parseOrNext(toks, op, left, parseAnd(toks, pos))

parseOr(toks, pos) == parseOrLoop(toks, "", NullNode, pos)

\* Parser::parseAnd : one level for both '&' (AND) and '&&' (AND_SHORT).
parseAndNext(toks, op, left, r) ==
    IF ~r.ok THEN r
    ELSE IF check(toks, r.pos, "AND") \/ check(toks, r.pos, "AND_SHORT")
    THEN parseAndLoop(toks, current(toks, r.pos).value, Joined(op, left, r.node),
                      r.pos + 1)
    ELSE POk(Joined(op, left, r.node), r.pos)

parseAndLoop(toks, op, left, pos) ==
    parseAndNext(toks, op, left, parseComparison(toks, pos))

parseAnd(toks, pos) == parseAndLoop(toks, "", NullNode, pos)

\* Parser::parseComparison
parseComparisonNext(toks, op, left, r) ==
    IF ~r.ok THEN r
    ELSE IF current(toks, r.pos).type \in {"EQ", "NEQ", "LT", "GT", "LEQ", "GEQ"}
    THEN parseComparisonLoop(toks, current(toks, r.pos).value,
                             Joined(op, left, r.node), r.pos + 1)
    ELSE POk(Joined(op, left, r.node), r.pos)

parseComparisonLoop(toks, op, left, pos) ==
    parseComparisonNext(toks, op, left, parseColon(toks, pos))

parseComparison(toks, pos) == parseComparisonLoop(toks, "", NullNode, pos)

\* Parser::parseColon : a:b and a:b:c.  parts holds the operands read before
\* pos (none, start, or start and second); r is the result of parseAddSub for
\* the operand at pos.  No ':' is looked for after the third operand.
parseColonNext(toks, parts, r) ==
    IF ~r.ok THEN r
    ELSE IF Len(parts) < 2 /\ check(toks, r.pos, "COLON")
    THEN parseColonLoop(toks, Append(parts, r.node), r.pos + 1)
    ELSE IF parts = <<>> THEN r
    ELSE POk([makeNode("COLON_EXPR") EXCEPT !.children = Append(parts, r.node)],
             r.pos)

parseColonLoop(toks, parts, pos) ==
    parseColonNext(toks, parts, parseAddSub(toks, pos))

parseColon(toks, pos) == parseColonLoop(toks, <<>>, pos)

\* Parser::parseAddSub
parseAddSubNext(toks, op, left, r) ==
    IF ~r.ok THEN r
    ELSE IF check(toks, r.pos, "PLUS") \/ check(toks, r.pos, "MINUS")
    THEN parseAddSubLoop(toks, current(toks, r.pos).value,
                         Joined(op, left, r.node), r.pos + 1)
    ELSE POk(Joined(op, left, r.node), r.pos)

parseAddSubLoop(toks, op, left, pos) ==
    parseAddSubNext(toks, op, left, parseMulDiv(toks, pos))

parseAddSub(toks, pos) == parseAddSubLoop(toks, "", NullNode, pos)

\* Parser::parseMulDiv
parseMulDivNext(toks, op, left, r) ==
    IF ~r.ok THEN r
    ELSE IF current(toks, r.pos).type \in
         {"STAR", "SLASH", "BACKSLASH", "DOT_BACKSLASH", "DOT_STAR", "DOT_SLASH"}
    THEN parseMulDivLoop(toks, current(toks, r.pos).value,
                         Joined(op, left, r.node), r.pos + 1)
    ELSE POk(Joined(op, left, r.node), r.pos)

parseMulDivLoop(toks, op, left, pos) ==
    parseMulDivNext(toks, op, left, parseUnary(toks, pos))

parseMulDiv(toks, pos) == parseMulDivLoop(toks, "", NullNode, pos)

\* Parser::parseUnary : '-' and '~' wrap the operand, '+' is dropped.
parseUnary(toks, pos) ==
    UnaryResult(IF check(toks, pos, "MINUS") THEN "-"
                ELSE IF check(toks, pos, "TILDE") THEN "~" ELSE "",
                parsePower(toks,
                    IF check(toks, pos, "MINUS") \/ check(toks, pos, "TILDE")
                       \/ check(toks, pos, "PLUS")
                    THEN pos + 1 ELSE pos))

\* Parser::parsePower : l is the result of parsePostfix; the exponent is parsed
\* by parseUnary.
parsePowerTail(toks, l) ==
    IF l.ok /\ (check(toks, l.pos, "CARET") \/ check(toks, l.pos, "DOT_CARET"))
    THEN LET r == parseUnary(toks, l.pos + 1)
         IN IF ~r.ok THEN r
            ELSE POk(BinaryNode(current(toks, l.pos).value, l.node, r.node), r.pos)
    ELSE l

parsePower(toks, pos) == parsePowerTail(toks, parsePostfix(toks, pos))

\* The argument list of a call: parseExpression, then ", parseExpression" while
\* a COMMA matches (the loop of Parser::parsePostfix).  e is the result of
\* parsing the argument that comes next.
parseCallArgs(toks, cn, e) ==
    IF ~e.ok THEN e
    ELSE IF check(toks, e.pos, "COMMA")
    THEN parseCallArgs(toks, [cn EXCEPT !.children = Append(@, e.node)],
                       parseExpression(toks, e.pos + 1))
    ELSE POk([cn EXCEPT !.children = Append(@, e.node)], e.pos)

\* Parser::parsePostfix : '(' args ')' makes a CALL node (call or index, decided
\* by the evaluator); a postfix apostrophe makes a transpose.  p is the result
\* of the node parsed so far.
parsePostfixLoop(toks, p) ==
    IF ~p.ok THEN p
    ELSE IF check(toks, p.pos, "LPAREN")
    THEN parsePostfixLoop(toks, consumeRParen(toks,
             IF check(toks, p.pos + 1, "RPAREN")
             THEN POk([makeNode("CALL") EXCEPT !.children = <<p.node>>], p.pos + 1)
             ELSE parseCallArgs(toks,
                      [makeNode("CALL") EXCEPT !.children = <<p.node>>],
                      parseExpression(toks, p.pos + 1))))
    ELSE IF check(toks, p.pos, "APOSTROPHE")
    THEN parsePostfixLoop(toks, POk(UnaryNode("'", p.node), p.pos + 1))
    ELSE p

parsePostfix(toks, pos) == parsePostfixLoop(toks, parsePrimary(toks, pos))

\* Parser::parsePrimary
parsePrimary(toks, pos) ==
    LET t == current(toks, pos).type
    IN CASE t = "NUMBER" ->
              POk([makeNode("NUMBER_LITERAL") EXCEPT
                     !.numValue = parseDouble(current(toks, pos).value),
                     !.strValue = current(toks, pos).value], pos + 1)
         [] t = "KW_TRUE" ->
              POk([makeNode("BOOL_LITERAL") EXCEPT !.boolValue = TRUE], pos + 1)
         [] t = "KW_FALSE" ->
              POk(makeNode("BOOL_LITERAL"), pos + 1)
         [] t = "IDENTIFIER" ->
              POk([makeNode("IDENTIFIER") EXCEPT
                     !.strValue = current(toks, pos).value], pos + 1)
         [] t = "LPAREN" -> consumeRParen(toks, parseExpression(toks, pos + 1))
         [] t = "LBRACKET" -> parseArrayLiteral(toks, pos)
         [] t = "COLON" -> POk(makeNode("COLON_EXPR"), pos + 1)
         [] OTHER -> PErr(pos)

\* The while loop of Parser::parseArrayLiteral (open = '[', close = ']'):
\* node is the literal, row the row being filled.
parseArrayLoop(toks, node, row, pos) ==
    IF ~check(toks, pos, "RBRACKET") /\ ~isAtEnd(toks, pos)
    THEN LET sep == check(toks, pos, "SEMICOLON") \/ check(toks, pos, "NEWLINE")
             node1 == IF sep THEN [node EXCEPT !.children = Append(@, row)] ELSE node
             row1 == IF sep THEN makeNode("BLOCK") ELSE row
             pos1 == IF sep THEN skipNewlines(toks, pos + 1)
                     ELSE IF check(toks, pos, "COMMA") THEN pos + 1 ELSE pos
             brk == sep /\ check(toks, pos1, "RBRACKET")
         IN IF brk THEN
                 (IF row1.children # <<>>
                  THEN POk([node1 EXCEPT !.children = Append(@, row1)], pos1 + 1)
                  ELSE POk(node1, pos1 + 1))
            ELSE IF ~check(toks, pos1, "RBRACKET") /\ ~check(toks, pos1, "SEMICOLON")
                    /\ ~check(toks, pos1, "NEWLINE")
            THEN LET e == parseExpression(toks, pos1)
                 IN IF ~e.ok THEN e
                    ELSE IF e.pos = pos THEN PErr(pos)
                    ELSE parseArrayLoop(toks, node1,
                             [row1 EXCEPT !.children = Append(@, e.node)], e.pos)
            ELSE IF pos1 = pos THEN PErr(pos)
            ELSE parseArrayLoop(toks, node1, row1, pos1)
    ELSE LET node1 == IF row.children # <<>>
                      THEN [node EXCEPT !.children = Append(@, row)] ELSE node
         IN IF check(toks, pos, "RBRACKET") THEN POk(node1, pos + 1) ELSE PErr(pos)

\* Parser::parseArrayLiteral / parseMatrixLiteral
parseArrayLiteral(toks, pos) ==
    IF ~check(toks, pos, "LBRACKET") THEN PErr(pos)
    ELSE LET node == makeNode("MATRIX_LITERAL")
         IN IF check(toks, pos + 1, "RBRACKET") THEN POk(node, pos + 2)
            ELSE LET e == parseExpression(toks, pos + 1)
                 IN IF ~e.ok THEN e
                    ELSE parseArrayLoop(toks, node,
                            [makeNode("BLOCK") EXCEPT !.children = <<e.node>>], e.pos)

\* Parser::tryMultiAssign : the name list "id, ~, id" after '['.  names is what
\* has been read; the result holds pos after the list, ok = FALSE for nullptr.
RECURSIVE multiAssignNames(_, _, _)
multiAssignNames(toks, names, pos) ==
    IF check(toks, pos, "COMMA")
    THEN IF check(toks, pos + 1, "IDENTIFIER")
         THEN multiAssignNames(toks, Append(names, current(toks, pos + 1).value), pos + 2)
         ELSE IF check(toks, pos + 1, "TILDE")
         THEN multiAssignNames(toks, Append(names, "~"), pos + 2)
         ELSE [ok |-> FALSE, names |-> names, pos |-> pos]
    ELSE [ok |-> TRUE, names |-> names, pos |-> pos]

\* The end of a simple statement in Parser::parseExpressionStatement:
\* suppressOutput = match(SEMICOLON); skipNewlines().
FinishStatement(toks, node, pos) ==
    LET semi == check(toks, pos, "SEMICOLON")
        p1 == IF semi THEN pos + 1 ELSE pos
    IN POk([node EXCEPT !.suppressOutput = semi], skipNewlines(toks, p1))

\* A statement that ends with a right-hand side: rhs is the result of
\* parseExpression, added as the last child of node.
FinishWith(toks, node, rhs) ==
    IF ~rhs.ok THEN rhs
    ELSE FinishStatement(toks, [node EXCEPT !.children = Append(@, rhs.node)],
                         rhs.pos)

\* Parser::tryMultiAssign : "[a, b] = expr".  node = NullNode stands for the
\* nullptr it returns when the statement is no multi-assignment; ok = FALSE is
\* the parse error thrown once '=' has been consumed.
tryMultiAssign(toks, pos) ==
    IF ~check(toks, pos, "LBRACKET") THEN POk(NullNode, pos)
    ELSE IF ~(check(toks, pos + 1, "IDENTIFIER") \/ check(toks, pos + 1, "TILDE"))
    THEN POk(NullNode, pos)
    ELSE LET first == IF check(toks, pos + 1, "IDENTIFIER")
                      THEN current(toks, pos + 1).value ELSE "~"
             nl == multiAssignNames(toks, <<first>>, pos + 2)
         IN IF ~nl.ok THEN POk(NullNode, pos)
            ELSE IF ~check(toks, nl.pos, "RBRACKET") THEN POk(NullNode, pos)
            ELSE IF ~check(toks, nl.pos + 1, "ASSIGN") THEN POk(NullNode, pos)
            ELSE FinishWith(toks,
                     [makeNode("MULTI_ASSIGN") EXCEPT !.returnNames = nl.names],
                     parseExpression(toks, nl.pos + 2))

\* Parser::parseExpressionStatement once the multi-assignment has been ruled
\* out: expr is the result of parseExpression at the start of the statement.
\* Any "= []" makes a DELETE_ASSIGN.
parseStatementFrom(toks, expr) ==
    IF ~expr.ok THEN expr
    ELSE IF check(toks, expr.pos, "ASSIGN")
    THEN IF check(toks, expr.pos + 1, "LBRACKET")
            /\ peekToken(toks, expr.pos + 1, 1).type = "RBRACKET"
         THEN FinishStatement(toks,
                 [makeNode("DELETE_ASSIGN") EXCEPT !.children = <<expr.node>>],
                 expr.pos + 3)
         ELSE FinishWith(toks,
                 [makeNode("ASSIGN") EXCEPT !.children = <<expr.node>>],
                 parseExpression(toks, expr.pos + 1))
    ELSE FinishStatement(toks,
            [makeNode("EXPR_STMT") EXCEPT !.children = <<expr.node>>],
            expr.pos)

\* Parser::parseExpressionStatement
parseExpressionStatement(toks, pos) ==
    LET ma == IF check(toks, pos, "LBRACKET") THEN tryMultiAssign(toks, pos)
              ELSE POk(NullNode, pos)
    IN IF ~ma.ok \/ ma.node # NullNode THEN ma
       ELSE parseStatementFrom(toks, parseExpression(toks, pos))

\* Parser::parseStatement : break / continue / return, and the default case.
parseStatement(toks, pos) ==
    LET t == current(toks, pos).type
    IN CASE t = "KW_BREAK" -> POk(makeNode("BREAK_STMT"), skipTerminators(toks, pos + 1))
         [] t = "KW_CONTINUE" ->
              POk(makeNode("CONTINUE_STMT"), skipTerminators(toks, pos + 1))
         [] t = "KW_RETURN" -> POk(makeNode("RETURN_STMT"), skipTerminators(toks, pos + 1))
         [] OTHER -> parseExpressionStatement(toks, pos)

\* The while loop of Parser::parse.
RECURSIVE parseLoop(_, _, _)
parseLoop(toks, block, pos) ==
    IF ~isAtEnd(toks, pos)
    THEN LET stmt == parseStatement(toks, pos)
         IN IF ~stmt.ok THEN stmt
            ELSE parseLoop(toks, [block EXCEPT !.children = Append(@, stmt.node)],
                           skipNewlines(toks, stmt.pos))
    ELSE POk(block, pos)

\* Parser::parse : the root BLOCK of the top-level statements.
parse(toks) == parseLoop(toks, makeNode("BLOCK"), skipNewlines(toks, 1))

(***************************************************************************)
(* Syntax trees as the parser builds them, for the programs handed to the  *)
(* evaluator.                                                              *)
(***************************************************************************)
\* Parser::parsePrimary : NUMBER
Num(n) == [makeNode("NUMBER_LITERAL") EXCEPT !.numValue = n]

\* Parser::parsePrimary : IDENTIFIER
Id(s) == [makeNode("IDENTIFIER") EXCEPT !.strValue = s]

\* Parser::parseBlock
Block(stmts) == [makeNode("BLOCK") EXCEPT !.children = stmts]

\* Parser::parsePostfix : name(args)
CallN(name, args) == [makeNode("CALL") EXCEPT !.children = <<Id(name)>> \o args]

\* Parser::parseExpressionStatement : lhs = rhs ;
AssignN(lhs, rhs) ==
    [makeNode("ASSIGN") EXCEPT !.children = <<lhs, rhs>>, !.suppressOutput = TRUE]

\* Parser::parseExpressionStatement : expr ;
ExprStmtN(e) ==
    [makeNode("EXPR_STMT") EXCEPT !.children = <<e>>, !.suppressOutput = TRUE]

\* Parser::tryMultiAssign : [names] = rhs ;
MultiAssignN(names, rhs) ==
    [makeNode("MULTI_ASSIGN") EXCEPT !.returnNames = names, !.children = <<rhs>>,
                                     !.suppressOutput = TRUE]

\* Parser::parseIf : if cond, body, end  /  if cond, body, else, other, end
IfN(cond, body) == [makeNode("IF_STMT") EXCEPT !.branches = << <<cond, Block(body)>> >>]

IfElseN(cond, body, other) ==
    [makeNode("IF_STMT") EXCEPT !.branches = << <<cond, Block(body)>> >>,
                                !.elseBranch = <<Block(other)>>]

\* Parser::parseFor
ForN(var, range, body) ==
    [makeNode("FOR_STMT") EXCEPT !.strValue = var, !.children = <<range, Block(body)>>]

\* Parser::parseWhile
WhileN(cond, body) == [makeNode("WHILE_STMT") EXCEPT !.children = <<cond, Block(body)>>]

\* Parser::parseTryCatch : try body catch errName, handler end
TryN(body, errName, handler) ==
    [makeNode("TRY_STMT") EXCEPT !.strValue = errName,
                                 !.children = <<Block(body), Block(handler)>>]

\* Parser::parseTryCatch : try body end (no catch part)
TryOnlyN(body) == [makeNode("TRY_STMT") EXCEPT !.children = <<Block(body)>>]

\* Parser::parseFunctionDef
FunctionDefN(name, params, returns, body) ==
    [makeNode("FUNCTION_DEF") EXCEPT !.strValue = name, !.paramNames = params,
                                     !.returnNames = returns, !.children = <<Block(body)>>]

\* Parser::parseAnonFunc : @(params) expr
AnonFuncN(params, e) ==
    [makeNode("ANON_FUNC") EXCEPT !.paramNames = params, !.children = <<e>>]

\* Parser::parseGlobalPersistent
GlobalN(names) == [makeNode("GLOBAL_STMT") EXCEPT !.paramNames = names]

\* Parser::parsePostfix : obj.field
FieldN(obj, field) ==
    [makeNode("FIELD_ACCESS") EXCEPT !.strValue = field, !.children = <<obj>>]

\* Parser::parseColon : a:b
RangeN(a, b) == [makeNode("COLON_EXPR") EXCEPT !.children = <<a, b>>]

(***************************************************************************)
(* Values (MValue), by content: kind, shape, elements in column-major      *)
(* order, the name of a function handle, the fields of a struct in         *)
(* insertion order.  Numbers are integers.                                 *)
(***************************************************************************)
MV(t, r, c, d) ==
    [type |-> t, rows |-> r, cols |-> c, data |-> d, funcName |-> "", fields |-> <<>>]

\* MValue::empty
empty == MV("EMPTY", 0, 0, <<>>)

\* The null MValue* of Environment::get / GlobalStore::get
NullValue == MV("NULL", 0, 0, <<>>)

\* MValue::scalar
scalar(v) == MV("DOUBLE", 1, 1, <<v>>)

\* MValue::logicalScalar
logicalScalar(b) == MV("LOGICAL", 1, 1, <<IF b THEN 1 ELSE 0>>)

\* MValue::matrix : zero-filled
matrix(r, c, t) == MV(t, r, c, [k \in 1..(r * c) |-> 0])

\* MValue::fromString : a 1 x n row of characters
fromString(s) == MV("CHAR", 1, Len(s), [k \in 1..Len(s) |-> SubSeq(s, k, k)])

\* MValue::funcHandle
funcHandle(name) == [MV("FUNC_HANDLE", 1, 1, <<>>) EXCEPT !.funcName = name]

\* MValue::structure, and MValue::field(name) = v on it
structure == MV("STRUCT", 1, 1, <<>>)

setField(s, name, v) ==
    IF \E k \in 1..Len(s.fields) : s.fields[k].name = name
    THEN [s EXCEPT !.fields = [k \in 1..Len(s.fields) |->
                                 IF s.fields[k].name = name
                                 THEN [name |-> name, value |-> v] ELSE s.fields[k]]]
    ELSE [s EXCEPT !.fields = Append(@, [name |-> name, value |-> v])]

\* MValue::hasField
hasField(s, name) == \E k \in 1..Len(s.fields) : s.fields[k].name = name

\* MValue::field(name) read: the field's value; a field that is missing is
\* created empty.
field(s, name) ==
    IF hasField(s, name)
    THEN s.fields[CHOOSE k \in 1..Len(s.fields) : s.fields[k].name = name].value
    ELSE MV("EMPTY", 0, 0, <<>>)

numel(v) == v.rows * v.cols
isScalar(v) == v.rows = 1 /\ v.cols = 1
isEmpty(v) == v.type = "EMPTY" \/ numel(v) = 0
isFuncHandle(v) == v.type = "FUNC_HANDLE"
\* MValue::isNumeric : DOUBLE, COMPLEX and the integer kinds (no value of the
\* model has an integer kind).
isNumeric(v) == v.type \in {"DOUBLE", "COMPLEX"}
isLogical(v) == v.type = "LOGICAL"
isChar(v) == v.type = "CHAR"
isCell(v) == v.type = "CELL"

\* A value owns a DataBuffer when it is numeric, logical or char and has elements.
hasBuffer(v) == v.type \in {"DOUBLE", "LOGICAL", "CHAR"} /\ numel(v) > 0

\* MValue::toBool : canBool is FALSE where toBool throws.
canBool(v) ==
    \/ v.type \in {"LOGICAL", "DOUBLE"} /\ isScalar(v) /\ hasBuffer(v)
    \/ v.type = "DOUBLE" /\ hasBuffer(v)

toBool(v) ==
    IF isScalar(v) THEN v.data[1] # 0
    ELSE (\A k \in 1..numel(v) : v.data[k] # 0) /\ numel(v) > 0

\* MValue::toScalar : canScalar is FALSE where toScalar throws.  A char
\* converts to its code, which the integer domain does not hold.
canScalar(v) == v.type \in {"DOUBLE", "LOGICAL"} /\ isScalar(v) /\ hasBuffer(v)

toScalar(v) == v.data[1]

(***************************************************************************)
(* The operator registry (Engine::binaryOps_, Engine::unaryOps_) as        *)
(* StdLibrary installs it.  A result is [ok, val, msg]; ok = FALSE is a    *)
(* thrown std::runtime_error.                                              *)
(***************************************************************************)
OpOk(v) == [ok |-> TRUE, val |-> v, msg |-> ""]
OpErr(m) == [ok |-> FALSE, val |-> empty, msg |-> m]

\* elementwiseDouble / the array part of makeCmpOp : scalar with scalar, scalar
\* with array, array with scalar, arrays of one shape; t is the result kind.
elementwise(a, b, t, Op(_, _)) ==
    IF isScalar(a) /\ isScalar(b) THEN OpOk(MV(t, 1, 1, <<Op(a.data[1], b.data[1])>>))
    ELSE IF isScalar(a)
    THEN OpOk(MV(t, b.rows, b.cols, [k \in 1..numel(b) |-> Op(a.data[1], b.data[k])]))
    ELSE IF isScalar(b)
    THEN OpOk(MV(t, a.rows, a.cols, [k \in 1..numel(a) |-> Op(a.data[k], b.data[1])]))
    ELSE IF a.rows # b.rows \/ a.cols # b.cols
    THEN OpErr("Matrix dimensions must agree")
    ELSE OpOk(MV(t, a.rows, a.cols, [k \in 1..numel(a) |-> Op(a.data[k], b.data[k])]))

plus(x, y) == x + y
minus(x, y) == x - y
B2N(b) == IF b THEN 1 ELSE 0

cmp(op, x, y) ==
    CASE op = "==" -> B2N(x = y)
      [] op = "~=" -> B2N(x # y)
      [] op = "<" -> B2N(x < y)
      [] op = ">" -> B2N(x > y)
      [] op = "<=" -> B2N(x <= y)
      [] op = ">=" -> B2N(x >= y)
      [] OTHER -> 0

\* makeCmpOp(op)
makeCmpOp(op, a, b) ==
    LET c(x, y) == cmp(op, x, y)
    IN IF isChar(a) /\ isChar(b) /\ op \in {"==", "~="}
       THEN OpOk(logicalScalar((a.data = b.data) = (op = "==")))
       ELSE IF isScalar(a) /\ isScalar(b)
       THEN (IF canScalar(a) /\ canScalar(b)
             THEN OpOk(logicalScalar(c(toScalar(a), toScalar(b)) = 1))
             ELSE OpErr("Cannot convert to scalar"))
       ELSE IF a.type = "DOUBLE" /\ b.type = "DOUBLE"
       THEN elementwise(a, b, "LOGICAL", c)
       ELSE OpErr("Unsupported types for comparison")

\* The scalar case of the "&" and "|" entries; on arrays they work element by
\* element on the truth values.
boolArray(v) == [k \in 1..numel(v) |-> B2N(v.data[k] # 0)]

logicalOp(a, b, Op(_, _)) ==
    IF isScalar(a) /\ isScalar(b)
    THEN (IF canBool(a) /\ canBool(b)
          THEN OpOk(logicalScalar(Op(B2N(toBool(a)), B2N(toBool(b))) = 1))
          ELSE OpErr("Cannot convert to bool"))
    ELSE IF ~(a.type \in {"DOUBLE", "LOGICAL"} /\ b.type \in {"DOUBLE", "LOGICAL"})
    THEN OpErr("Cannot convert to bool")
    ELSE IF ~isScalar(a) /\ ~isScalar(b) /\ numel(a) # numel(b)
    THEN OpErr("Matrix dimensions must agree")
    ELSE elementwise([a EXCEPT !.data = boolArray(a)], [b EXCEPT !.data = boolArray(b)],
                     "LOGICAL", Op)

and2(x, y) == B2N(x = 1 /\ y = 1)
or2(x, y) == B2N(x = 1 \/ y = 1)

\* Engine::binaryOps_ : the entries "+", "-", the comparisons, "&" and "|".
binaryOps_(op, a, b) ==
    CASE op = "+" ->
           (IF a.type = "DOUBLE" /\ b.type = "DOUBLE" THEN elementwise(a, b, "DOUBLE", plus)
            ELSE IF isChar(a) /\ isChar(b)
            THEN OpOk(MV("CHAR", 1, a.cols + b.cols, a.data \o b.data))
            ELSE OpErr("Unsupported types for +"))
      [] op = "-" ->
           (IF a.type = "DOUBLE" /\ b.type = "DOUBLE" THEN elementwise(a, b, "DOUBLE", minus)
            ELSE OpErr("Unsupported types for -"))
      [] op \in {"==", "~=", "<", ">", "<=", ">="} -> makeCmpOp(op, a, b)
      [] op = "&" -> logicalOp(a, b, and2)
      [] op = "|" -> logicalOp(a, b, or2)
      [] OTHER -> OpErr("Undefined binary operator: " \o op)

\* Engine::unaryOps_ : the entries "-", "~" and "+".
unaryOps_(op, a) ==
    CASE op = "-" ->
           (IF a.type = "DOUBLE"
            THEN OpOk([a EXCEPT !.data = [k \in 1..numel(a) |-> 0 - a.data[k]]])
            ELSE OpErr("Unsupported unary -"))
      [] op = "~" ->
           (IF a.type \in {"LOGICAL", "DOUBLE"} /\ hasBuffer(a)
            THEN OpOk(MV("LOGICAL", a.rows, a.cols,
                         [k \in 1..numel(a) |-> B2N(a.data[k] = 0)]))
            ELSE IF a.type \in {"LOGICAL", "DOUBLE"}
            THEN (IF isScalar(a) THEN OpErr("Cannot convert to bool")
                  ELSE OpOk(MV("LOGICAL", a.rows, a.cols, <<>>)))
            ELSE OpErr("Cannot convert to bool"))
      [] op = "+" -> OpOk(a)
      [] OTHER -> OpErr("Undefined unary operator: " \o op)

(***************************************************************************)
(* Environments.  A scope is the vars_ map and the globals_ set of one     *)
(* Environment.  The environment a piece of code runs in is the chain of   *)
(* its scopes, innermost first, WITHOUT the root: <<>> is globalEnv_       *)
(* itself, and every chain ends, by its last parent_ link, in the live     *)
(* globalEnv_ held in the engine state.  Scopes other than the innermost   *)
(* are closure snapshots, which nothing writes after their creation.       *)
(*                                                                         *)
(* The engine state st is the record                                       *)
(*   [globalEnv, store, userFuncs, depth, maxDepth, anonCounter, site, out]*)
(* of Engine::globalEnv_, globalStore_, userFuncs_,                        *)
(* currentRecursionDepth_, maxRecursionDepth_ and anonCounter_; out is     *)
(* the list of names displayValue printed; site is a history map that      *)
(* records, for each anonymous function, whether it was created with       *)
(* env = globalEnv_ and which names the copied scopes bound.               *)
(***************************************************************************)
Scope(v, g) == [vars |-> v, globals |-> g]

NoVars == [n \in {} |-> empty]

\* vars_[name] = val
VarSet(m, name, val) == [n \in (DOMAIN m) \cup {name} |-> IF n = name THEN val ELSE m[n]]

\* vars_.erase(name)
VarErase(m, name) == [n \in (DOMAIN m) \ {name} |-> m[n]]

\* GlobalStore::get
GlobalStore_get(store, name) == IF name \in DOMAIN store THEN store[name] ELSE NullValue

\* GlobalStore::set
GlobalStore_set(store, name, val) == VarSet(store, name, val)

\* The scope at position k of a chain; past the end it is the root.
ScopeAt(st, env, k) == IF k > Len(env) THEN st.globalEnv ELSE env[k]

\* A get that looks at the scope's own variables before its global
\* declarations.
getLocalFirst(st, env, name) ==
    IF name \in DOMAIN ScopeAt(st, env, 1).vars THEN ScopeAt(st, env, 1).vars[name]
    ELSE IF name \in ScopeAt(st, env, 1).globals THEN GlobalStore_get(st.store, name)
    ELSE IF env # <<>> /\ name \in DOMAIN st.globalEnv.vars THEN st.globalEnv.vars[name]
    ELSE NullValue

\* Environment::get, started at the k-th scope of the chain.
RECURSIVE Environment_getAt(_, _, _, _)
Environment_getAt(st, env, k, name) ==
    LET sc == ScopeAt(st, env, k)
    IN IF name \in sc.globals THEN GlobalStore_get(st.store, name)
       ELSE IF name \in DOMAIN sc.vars THEN sc.vars[name]
       ELSE IF k > Len(env) THEN NullValue
       ELSE Environment_getAt(st, env, k + 1, name)

Environment_get(st, env, name) == Environment_getAt(st, env, 1, name)

\* Environment::has
RECURSIVE Environment_hasAt(_, _, _, _)
Environment_hasAt(st, env, k, name) ==
    LET sc == ScopeAt(st, env, k)
    IN IF name \in sc.globals THEN GlobalStore_get(st.store, name) # NullValue
       ELSE IF name \in DOMAIN sc.vars THEN TRUE
       ELSE IF k > Len(env) THEN FALSE
       ELSE Environment_hasAt(st, env, k + 1, name)

Environment_has(st, env, name) == Environment_hasAt(st, env, 1, name)

\* The pair (engine state, environment) after a write to the environment.
SE(st, env) == [st |-> st, env |-> env]

\* Environment::setLocal
Environment_setLocal(st, env, name, val) ==
    IF env = <<>> THEN SE([st EXCEPT !.globalEnv.vars = VarSet(@, name, val)], env)
    ELSE SE(st, [env EXCEPT ![1].vars = VarSet(@, name, val)])

\* A set that writes the root's variable when the root binds the name and the
\* innermost scope does not.
setThroughParent(st, env, name, val) ==
    IF name \in ScopeAt(st, env, 1).globals
    THEN SE([st EXCEPT !.store = GlobalStore_set(@, name, val)], env)
    ELSE IF env # <<>> /\ name \notin DOMAIN env[1].vars /\ name \in DOMAIN st.globalEnv.vars
    THEN SE([st EXCEPT !.globalEnv.vars = VarSet(@, name, val)], env)
    ELSE Environment_setLocal(st, env, name, val)

\* Environment::set
Environment_set(st, env, name, val) ==
    IF name \in ScopeAt(st, env, 1).globals
    THEN SE([st EXCEPT !.store = GlobalStore_set(@, name, val)], env)
    ELSE Environment_setLocal(st, env, name, val)

\* Environment::getLocal
Environment_getLocal(st, env, name) ==
    LET sc == ScopeAt(st, env, 1)
    IN IF name \in DOMAIN sc.vars THEN sc.vars[name] ELSE NullValue

\* Environment::declareGlobal
Environment_declareGlobal(st, env, name) ==
    IF env = <<>> THEN SE([st EXCEPT !.globalEnv.globals = @ \cup {name}], env)
    ELSE SE(st, [env EXCEPT ![1].globals = @ \cup {name}])

\* Environment::remove
Environment_remove(st, env, name) ==
    IF env = <<>>
    THEN SE([st EXCEPT !.globalEnv = Scope(VarErase(@.vars, name), @.globals \ {name})], env)
    ELSE SE(st, [env EXCEPT ![1] = Scope(VarErase(@.vars, name), @.globals \ {name})])

\* A snapshot that copies the root scope as well, whatever the scope it is
\* taken of.
snapshotWithRoot(st, env, k) ==
    [i \in 1..(Len(env) - k + 2) |->
        Scope(ScopeAt(st, env, k + i - 1).vars, ScopeAt(st, env, k + i - 1).globals)]

\* Environment::snapshot(newParent = globalEnv_) of the k-th scope of a chain:
\* a copy of that scope whose parent is the snapshot of the next scope, or
\* globalEnv_ itself when the next "scope" is the root (parent_->parent_ is
\* null) or there is none (the scope is the root: parent_ is null).
RECURSIVE snapshotAt(_, _, _)
snapshotAt(st, env, k) ==
    LET sc == ScopeAt(st, env, k)
        snappedParent == IF k < Len(env) THEN snapshotAt(st, env, k + 1) ELSE <<>>
    IN <<Scope(sc.vars, sc.globals)>> \o snappedParent

snapshot(st, env) == snapshotAt(st, env, 1)

(***************************************************************************)
(* Results of the evaluator's functions.  sig is "ok" for a normal return  *)
(* (val, or vals for a result list), "error" for a thrown                  *)
(* std::runtime_error (msg is what()), and "break" / "continue" /          *)
(* "return" for a thrown BreakSignal / ContinueSignal / ReturnSignal.  st  *)
(* and env are the engine state and the environment as the function left  *)
(* them, also when it threw.                                               *)
(***************************************************************************)
R(st, env, sig, val, vals, msg) ==
    [st |-> st, env |-> env, sig |-> sig, val |-> val, vals |-> vals, msg |-> msg]

Ok(st, env, v) == R(st, env, "ok", v, <<>>, "")
OkMulti(st, env, vs) == R(st, env, "ok", empty, vs, "")
Throw(st, env, m) == R(st, env, "error", empty, <<>>, m)
Signal(st, env, s) == R(st, env, s, empty, <<>>, "")

\* results.empty() ? MValue::empty() : results[0]
First(r) == IF r.sig # "ok" THEN r
            ELSE Ok(r.st, r.env, IF r.vals = <<>> THEN empty ELSE r.vals[1])

\* A statement node that displays its result whatever terminates it.
neverSuppressed(node) == FALSE

\* node->suppressOutput : the statement was terminated by a semicolon.
suppressOutput(node) == node.suppressOutput

\* Engine::displayValue : the name printed is appended to the output.
displayValue(st, name) == [st EXCEPT !.out = Append(@, name)]

\* mtypeName
mtypeName(t) ==
    CASE t = "EMPTY" -> "empty"
      [] t = "DOUBLE" -> "double"
      [] t = "LOGICAL" -> "logical"
      [] t = "CHAR" -> "char"
      [] t = "CELL" -> "cell"
      [] t = "STRUCT" -> "struct"
      [] t = "FUNC_HANDLE" -> "function_handle"
      [] OTHER -> "unknown"

\* MValue::toString : canString is FALSE where it throws "Not a char array".
canString(v) == (v.type = "CHAR" /\ hasBuffer(v)) \/ v.type = "FUNC_HANDLE"

RECURSIVE joinChars(_, _)
joinChars(d, k) == IF k > Len(d) THEN "" ELSE d[k] \o joinChars(d, k + 1)

toString(v) == IF v.type = "FUNC_HANDLE" THEN v.funcName ELSE joinChars(v.data, 1)

\* Environment::localNames, then remove(n) for each of them.
RECURSIVE removeAll(_, _, _)
removeAll(st, env, names) ==
    IF names = {} THEN SE(st, env)
    ELSE LET n == CHOOSE x \in names : TRUE
             r == Environment_remove(st, env, n)
         IN removeAll(r.st, r.env, names \ {n})

\* The loop of "clear a b ..." : remove(a.toString()) for each char argument.
RECURSIVE removeArgs(_, _, _, _)
removeArgs(st, env, args, k) ==
    IF k > Len(args) THEN Ok(st, env, empty)
    ELSE IF ~isChar(args[k]) THEN removeArgs(st, env, args, k + 1)
    ELSE IF ~canString(args[k]) THEN Throw(st, env, "Not a char array")
    ELSE LET r == Environment_remove(st, env, toString(args[k]))
         IN removeArgs(r.st, r.env, args, k + 1)

\* The names Engine::tryBuiltinCall handles itself.
BuiltinNames == {"clear", "who", "whos", "exist", "class"}

\* The names of Engine::externalFuncs_ the programs use.
ExternalNames == {"error", "isempty"}

\* Engine::tryBuiltinCall for a name in BuiltinNames (it returns false for
\* every other name).
tryBuiltinCall(name, args, env, st) ==
    CASE name = "clear" ->
           (IF args = <<>>
            THEN LET r == removeAll(st, env, DOMAIN ScopeAt(st, env, 1).vars)
                 IN Ok(r.st, r.env, empty)
            ELSE removeArgs(st, env, args, 1))
      [] name \in {"who", "whos"} -> Ok([st EXCEPT !.out = Append(@, name)], env, empty)
      [] name = "exist" ->
           (IF args = <<>> THEN Throw(st, env, "exist requires a name argument")
            ELSE IF ~canString(args[1]) THEN Throw(st, env, "Not a char array")
            ELSE LET varName == toString(args[1])
                 IN IF Environment_has(st, env, varName) THEN Ok(st, env, scalar(1))
                    ELSE IF varName \in ExternalNames \/ varName \in DOMAIN st.userFuncs
                    THEN Ok(st, env, scalar(5))
                    ELSE Ok(st, env, scalar(0)))
      [] name = "class" ->
           (IF args = <<>> THEN Throw(st, env, "class requires an argument")
            ELSE Ok(st, env, fromString(mtypeName(args[1].type))))

\* Engine::externalFuncs_[name](args) for the registered "error" and "isempty".
\* isempty reads args[0]; it is called with at least one argument.
externalFuncs_(name, args, env, st) ==
    CASE name = "error" ->
           (IF args = <<>> THEN Throw(st, env, "Error")
            ELSE IF ~canString(args[1]) THEN Throw(st, env, "Not a char array")
            ELSE Throw(st, env, toString(args[1])))
      [] name = "isempty" -> OkMulti(st, env, <<logicalScalar(isEmpty(args[1]))>>)

(***************************************************************************)
(* The evaluator (Engine::execNode and the functions it dispatches to).    *)
(* Each operator takes the node, the environment chain and the engine      *)
(* state, and yields a result R(...).                                      *)
(***************************************************************************)
RECURSIVE execNode(_, _, _)
RECURSIVE execBlockFrom(_, _, _, _, _)
RECURSIVE evalArgs(_, _, _, _, _)
RECURSIVE execIdentifier(_, _, _)
RECURSIVE execAssign(_, _, _)
RECURSIVE execIndexedAssign(_, _, _, _)
RECURSIVE execMultiAssign(_, _, _)
RECURSIVE execCallMulti(_, _, _, _)
RECURSIVE execDeleteAssign(_, _, _)
RECURSIVE execBinaryOp(_, _, _)
RECURSIVE execUnaryOp(_, _, _)
RECURSIVE callFuncHandle(_, _, _, _)
RECURSIVE callFuncHandleMulti(_, _, _, _, _)
RECURSIVE execCall(_, _, _)
RECURSIVE execIndexAccess(_, _, _, _)
RECURSIVE resolveIndex(_, _, _, _, _, _)
RECURSIVE execMatrixLiteral(_, _, _)
RECURSIVE execColonExpr(_, _, _)
RECURSIVE execIfFrom(_, _, _, _)
RECURSIVE execFor(_, _, _)
RECURSIVE execForLoop(_, _, _, _, _)
RECURSIVE execWhile(_, _, _)
RECURSIVE execFunctionDef(_, _, _)
RECURSIVE execExprStmt(_, _, _)
RECURSIVE execAnonFunc(_, _, _)
RECURSIVE execTryCatch(_, _, _)
RECURSIVE execGlobalPersistent(_, _, _)
RECURSIVE callUserFunction(_, _, _, _)
RECURSIVE callUserFunctionMulti(_, _, _, _, _)
RECURSIVE execCellLiteral(_, _, _)
RECURSIVE execCellIndex(_, _, _)
RECURSIVE execCellAssign(_, _, _, _)
RECURSIVE execFieldAssign(_, _, _, _)
RECURSIVE execFieldAccess(_, _, _)

\* Engine::execBlock : the children in order, from the k-th on; an exception
\* or signal ends the block.
execBlockFrom(node, k, env, st, last) ==
    IF k > Len(node.children) THEN Ok(st, env, last)
    ELSE LET r == execNode(node.children[k], env, st)
         IN IF r.sig # "ok" THEN r
            ELSE execBlockFrom(node, k + 1, r.env, r.st, r.val)

execBlock(node, env, st) == execBlockFrom(node, 1, env, st, empty)

\* Engine::execNode
execNode(node, env, st) ==
    LET t == node.type
    IN CASE t = "NULL" -> Ok(st, env, empty)
         [] t = "BLOCK" -> execBlock(node, env, st)
         [] t = "NUMBER_LITERAL" -> Ok(st, env, scalar(node.numValue))
         [] t = "STRING_LITERAL" -> Ok(st, env, fromString(node.strValue))
         [] t = "BOOL_LITERAL" -> Ok(st, env, logicalScalar(node.boolValue))
         [] t = "IDENTIFIER" -> execIdentifier(node, env, st)
         [] t = "ASSIGN" -> execAssign(node, env, st)
         [] t = "MULTI_ASSIGN" -> execMultiAssign(node, env, st)
         [] t = "BINARY_OP" -> execBinaryOp(node, env, st)
         [] t = "UNARY_OP" -> execUnaryOp(node, env, st)
         [] t = "CALL" -> execCall(node, env, st)
         [] t = "CELL_INDEX" -> execCellIndex(node, env, st)
         [] t = "FIELD_ACCESS" -> execFieldAccess(node, env, st)
         [] t = "MATRIX_LITERAL" -> execMatrixLiteral(node, env, st)
         [] t = "CELL_LITERAL" -> execCellLiteral(node, env, st)
         [] t = "COLON_EXPR" -> execColonExpr(node, env, st)
         [] t = "IF_STMT" -> execIfFrom(node, 1, env, st)
         [] t = "FOR_STMT" -> execFor(node, env, st)
         [] t = "WHILE_STMT" -> execWhile(node, env, st)
         [] t = "BREAK_STMT" -> Signal(st, env, "break")
         [] t = "CONTINUE_STMT" -> Signal(st, env, "continue")
         [] t = "RETURN_STMT" -> Signal(st, env, "return")
         [] t = "FUNCTION_DEF" -> execFunctionDef(node, env, st)
         [] t = "EXPR_STMT" -> execExprStmt(node, env, st)
         [] t = "ANON_FUNC" -> execAnonFunc(node, env, st)
         [] t = "TRY_STMT" -> execTryCatch(node, env, st)
         [] t = "DELETE_ASSIGN" -> execDeleteAssign(node, env, st)
         [] t \in {"GLOBAL_STMT", "PERSISTENT_STMT"} -> execGlobalPersistent(node, env, st)
         [] OTHER -> Throw(st, env, "Unknown AST node type")

\* The argument loops "for i = k .. : args.push_back(execNode(children[i]))"
\* (buildArgs in Engine::execCall, the loop of Engine::execCallMulti).
evalArgs(node, k, env, st, acc) ==
    IF k > Len(node.children) THEN OkMulti(st, env, acc)
    ELSE LET r == execNode(node.children[k], env, st)
         IN IF r.sig # "ok" THEN r
            ELSE evalArgs(node, k + 1, r.env, r.st, Append(acc, r.val))

\* Engine::execIdentifier
execIdentifier(node, env, st) ==
    LET name == node.strValue
        val == Environment_get(st, env, name)
    IN IF val # NullValue THEN Ok(st, env, val)
       ELSE IF name \in BuiltinNames THEN tryBuiltinCall(name, <<>>, env, st)
       ELSE IF name \in ExternalNames THEN First(externalFuncs_(name, <<>>, env, st))
       ELSE IF name \in DOMAIN st.userFuncs
       THEN callUserFunction(st.userFuncs[name], <<>>, env, st)
       ELSE Throw(st, env, "Undefined variable or function: " \o name)

\* Engine::execAssign
execAssign(node, env, st) ==
    LET lhs == node.children[1]
        rhs == execNode(node.children[2], env, st)
    IN IF rhs.sig # "ok" THEN rhs
       ELSE IF lhs.type = "IDENTIFIER"
       THEN LET w == Environment_set(rhs.st, rhs.env, lhs.strValue, rhs.val)
            IN Ok(IF suppressOutput(node) THEN w.st ELSE displayValue(w.st, lhs.strValue),
                  w.env, rhs.val)
       ELSE IF lhs.type = "CALL"
       THEN LET w == execIndexedAssign(lhs, rhs.val, rhs.env, rhs.st)
            IN IF w.sig # "ok" THEN w ELSE Ok(w.st, w.env, rhs.val)
       ELSE IF lhs.type = "FIELD_ACCESS"
       THEN LET w == execFieldAssign(lhs, rhs.val, rhs.env, rhs.st)
            IN IF w.sig # "ok" THEN w ELSE Ok(w.st, w.env, rhs.val)
       ELSE IF lhs.type = "CELL_INDEX"
       THEN LET w == execCellAssign(lhs, rhs.val, rhs.env, rhs.st)
            IN IF w.sig # "ok" THEN w ELSE Ok(w.st, w.env, rhs.val)
       ELSE Throw(rhs.st, rhs.env, "Invalid assignment target")

\* Engine::execMultiAssign
RECURSIVE bindResults(_, _, _, _, _)
bindResults(names, results, k, env, st) ==
    IF k > Len(names) \/ k > Len(results) THEN SE(st, env)
    ELSE IF names[k] = "~" THEN bindResults(names, results, k + 1, env, st)
    ELSE LET w == Environment_set(st, env, names[k], results[k])
         IN bindResults(names, results, k + 1, w.env, w.st)

RECURSIVE displayResults(_, _, _, _)
displayResults(names, results, k, st) ==
    IF k > Len(names) \/ k > Len(results) THEN st
    ELSE displayResults(names, results, k + 1,
                        IF names[k] = "~" THEN st ELSE displayValue(st, names[k]))

execMultiAssign(node, env, st) ==
    LET res == execCallMulti(node.children[1], env, Len(node.returnNames), st)
    IN IF res.sig # "ok" THEN res
       ELSE LET w == bindResults(node.returnNames, res.vals, 1, res.env, res.st)
                st2 == IF ~suppressOutput(node) /\ res.vals # <<>>
                       THEN displayResults(node.returnNames, res.vals, 1, w.st)
                       ELSE w.st
            IN Ok(st2, w.env, IF res.vals = <<>> THEN empty ELSE res.vals[1])

\* Engine::execCallMulti
execCallMulti(node, env, nout, st) ==
    IF node.type # "CALL" THEN Throw(st, env, "Expected function call in multi-assignment")
    ELSE LET funcName == node.children[1].strValue
             a == evalArgs(node, 2, env, st, <<>>)
         IN IF a.sig # "ok" THEN a
            ELSE LET var == Environment_get(a.st, a.env, funcName)
                 IN IF var # NullValue /\ isFuncHandle(var)
                    THEN callFuncHandleMulti(var, a.vals, a.env, nout, a.st)
                    ELSE IF funcName \in ExternalNames
                    THEN externalFuncs_(funcName, a.vals, a.env, a.st)
                    ELSE IF funcName \in DOMAIN a.st.userFuncs
                    THEN callUserFunctionMulti(a.st.userFuncs[funcName], a.vals, a.env,
                                               nout, a.st)
                    ELSE Throw(a.st, a.env, "Undefined function: " \o funcName)

\* A registry result turned into an evaluator result.
FromOp(o, env, st) == IF o.ok THEN Ok(st, env, o.val) ELSE Throw(st, env, o.msg)

\* logicalScalar(execNode(right).toBool()) : the right operand of && and ||.
RightBool(node, env, st) ==
    LET r == execNode(node.children[2], env, st)
    IN IF r.sig # "ok" THEN r
       ELSE IF ~canBool(r.val) THEN Throw(r.st, r.env, "Cannot convert to bool")
       ELSE Ok(r.st, r.env, logicalScalar(toBool(r.val)))

\* The result of && or || once both operands are evaluated: lb is the truth
\* of the left operand, r the result of RightBool.
eagerResult(op, lb, r) ==
    IF r.sig # "ok" THEN r
    ELSE Ok(r.st, r.env, logicalScalar(IF op = "&&" THEN lb /\ toBool(r.val)
                                       ELSE lb \/ toBool(r.val)))

\* A binary operator that evaluates both operands of && and || whatever the
\* left one is.
binaryOpEager(node, env, st) ==
    LET left == execNode(node.children[1], env, st)
    IN IF left.sig # "ok" THEN left
       ELSE IF node.strValue \in {"&&", "||"}
       THEN (IF ~canBool(left.val) THEN Throw(left.st, left.env, "Cannot convert to bool")
             ELSE eagerResult(node.strValue, toBool(left.val),
                              RightBool(node, left.env, left.st)))
       ELSE LET right == execNode(node.children[2], left.env, left.st)
            IN IF right.sig # "ok" THEN right
               ELSE FromOp(binaryOps_(node.strValue, left.val, right.val), right.env, right.st)

\* Engine::execBinaryOp
execBinaryOp(node, env, st) ==
    LET op == node.strValue
    IN IF op \in {"&&", "||"}
       THEN LET l == execNode(node.children[1], env, st)
            IN IF l.sig # "ok" THEN l
               ELSE IF ~canBool(l.val) THEN Throw(l.st, l.env, "Cannot convert to bool")
               ELSE IF op = "&&" /\ ~toBool(l.val) THEN Ok(l.st, l.env, logicalScalar(FALSE))
               ELSE IF op = "||" /\ toBool(l.val) THEN Ok(l.st, l.env, logicalScalar(TRUE))
               ELSE RightBool(node, l.env, l.st)
       ELSE LET left == execNode(node.children[1], env, st)
            IN IF left.sig # "ok" THEN left
               ELSE LET right == execNode(node.children[2], left.env, left.st)
                    IN IF right.sig # "ok" THEN right
                       ELSE FromOp(binaryOps_(op, left.val, right.val), right.env, right.st)

\* Engine::execUnaryOp
execUnaryOp(node, env, st) ==
    LET operand == execNode(node.children[1], env, st)
    IN IF operand.sig # "ok" THEN operand
       ELSE FromOp(unaryOps_(node.strValue, operand.val), operand.env, operand.st)

\* Engine::callFuncHandleMulti
callFuncHandleMulti(handle, args, env, nout, st) ==
    LET name == handle.funcName
    IN IF name \in ExternalNames THEN externalFuncs_(name, args, env, st)
       ELSE IF name \in DOMAIN st.userFuncs
       THEN callUserFunctionMulti(st.userFuncs[name], args, env, nout, st)
       ELSE Throw(st, env, "Undefined function in handle: @" \o name)

\* Engine::callFuncHandle
callFuncHandle(handle, args, env, st) == First(callFuncHandleMulti(handle, args, env, 1, st))

\* Every variable counts as something to index.
anyVariable(v) == TRUE

\* isNumeric() || isLogical() || isChar() || isCell()
Indexable(v) == isNumeric(v) \/ isLogical(v) \/ isChar(v) \/ isCell(v)

\* Engine::execCall for a target that is an identifier, from the point where
\* the variable is no function handle and nothing to index: buildArgs() runs
\* for the built-in attempt, and again for the external or user function.
execCallNamed(node, name, var, env, st) ==
    LET a1 == evalArgs(node, 2, env, st, <<>>)
    IN IF a1.sig # "ok" THEN a1
       ELSE IF name \in BuiltinNames THEN tryBuiltinCall(name, a1.vals, a1.env, a1.st)
       ELSE IF name \in ExternalNames
       THEN LET a2 == evalArgs(node, 2, a1.env, a1.st, <<>>)
            IN IF a2.sig # "ok" THEN a2
               ELSE First(externalFuncs_(name, a2.vals, a2.env, a2.st))
       ELSE IF name \in DOMAIN a1.st.userFuncs
       THEN LET a2 == evalArgs(node, 2, a1.env, a1.st, <<>>)
            IN IF a2.sig # "ok" THEN a2
               ELSE callUserFunction(a2.st.userFuncs[name], a2.vals, a2.env, a2.st)
       ELSE IF var # NullValue
       THEN Throw(a1.st, a1.env, "Cannot index into variable '" \o name \o "'")
       ELSE Throw(a1.st, a1.env, "Undefined function or variable: " \o name)

\* Engine::execCall
execCall(node, env, st) ==
    LET funcNode == node.children[1]
    IN IF funcNode.type # "IDENTIFIER"
       THEN LET target == execNode(funcNode, env, st)
            IN IF target.sig # "ok" THEN target
               ELSE IF isFuncHandle(target.val)
               THEN LET a == evalArgs(node, 2, target.env, target.st, <<>>)
                    IN IF a.sig # "ok" THEN a
                       ELSE callFuncHandle(target.val, a.vals, a.env, a.st)
               ELSE IF Indexable(target.val)
               THEN execIndexAccess(target.val, node, target.env, target.st)
               ELSE Throw(target.st, target.env, "Cannot call or index into value of type "
                                                 \o mtypeName(target.val.type))
       ELSE LET name == funcNode.strValue
                var == Environment_get(st, env, name)
            IN IF var # NullValue /\ isFuncHandle(var)
               THEN LET a == evalArgs(node, 2, env, st, <<>>)
                    IN IF a.sig # "ok" THEN a
                       ELSE callFuncHandle(var, a.vals, a.env, a.st)
               ELSE IF var # NullValue /\ Indexable(var)
               THEN execIndexAccess(var, node, env, st)
               ELSE execCallNamed(node, name, var, env, st)

\* Engine::execIf : the branches from the k-th on, then the else body.
execIfFrom(node, k, env, st) ==
    IF k > Len(node.branches)
    THEN (IF node.elseBranch # <<>> THEN execNode(node.elseBranch[1], env, st)
          ELSE Ok(st, env, empty))
    ELSE LET c == execNode(node.branches[k][1], env, st)
         IN IF c.sig # "ok" THEN c
            ELSE IF ~canBool(c.val) THEN Throw(c.st, c.env, "Cannot convert to bool")
            ELSE IF toBool(c.val) THEN execNode(node.branches[k][2], c.env, c.st)
            ELSE execIfFrom(node, k + 1, c.env, c.st)

\* The value the loop variable takes in the c-th pass of Engine::execFor, and
\* the number of passes, by the kind of the range value.
ForPasses(rangeVal) ==
    IF rangeVal.type \in {"CELL", "DOUBLE"} THEN rangeVal.cols ELSE numel(rangeVal)

ForValue(rangeVal, c) ==
    CASE rangeVal.type = "CELL" ->
           (IF rangeVal.rows = 1 THEN rangeVal.data[c]
            ELSE MV("CELL", rangeVal.rows, 1,
                    [r \in 1..rangeVal.rows |-> rangeVal.data[(c - 1) * rangeVal.rows + r]]))
      [] rangeVal.type = "DOUBLE" ->
           (IF rangeVal.rows = 1 THEN scalar(rangeVal.data[c])
            ELSE MV("DOUBLE", rangeVal.rows, 1,
                    [r \in 1..rangeVal.rows |-> rangeVal.data[(c - 1) * rangeVal.rows + r]]))
      [] rangeVal.type = "CHAR" -> MV("CHAR", 1, 1, <<rangeVal.data[c]>>)
      [] rangeVal.type = "LOGICAL" -> scalar(rangeVal.data[c])

\* A for loop that lets a BreakSignal out of its body pass on to whatever
\* encloses it.
forLoopPassingBreak(node, rangeVal, c, env, st) ==
    IF c > ForPasses(rangeVal) THEN Ok(st, env, empty)
    ELSE LET w == Environment_set(st, env, node.strValue, ForValue(rangeVal, c))
             b == execNode(node.children[2], w.env, w.st)
         IN IF b.sig \in {"ok", "continue"}
            THEN execForLoop(node, rangeVal, c + 1, b.env, b.st)
            ELSE b

\* The loops of Engine::execFor, from pass c on: a BreakSignal out of the
\* body ends the loop, a ContinueSignal goes on with the next pass, anything
\* else thrown leaves the loop.
execForLoop(node, rangeVal, c, env, st) ==
    IF c > ForPasses(rangeVal) THEN Ok(st, env, empty)
    ELSE LET w == Environment_set(st, env, node.strValue, ForValue(rangeVal, c))
             b == execNode(node.children[2], w.env, w.st)
         IN IF b.sig = "break" THEN Ok(b.st, b.env, empty)
            ELSE IF b.sig \in {"ok", "continue"}
            THEN execForLoop(node, rangeVal, c + 1, b.env, b.st)
            ELSE b

\* Engine::execFor
execFor(node, env, st) ==
    LET rg == execNode(node.children[1], env, st)
    IN IF rg.sig # "ok" THEN rg
       ELSE IF rg.val.type \in {"CELL", "DOUBLE", "CHAR", "LOGICAL"}
       THEN execForLoop(node, rg.val, 1, rg.env, rg.st)
       ELSE Throw(rg.st, rg.env, "Unsupported type in for loop: " \o mtypeName(rg.val.type))

\* Engine::execWhile
execWhile(node, env, st) ==
    LET c == execNode(node.children[1], env, st)
    IN IF c.sig # "ok" THEN c
       ELSE IF ~canBool(c.val) THEN Throw(c.st, c.env, "Cannot convert to bool")
       ELSE IF ~toBool(c.val) THEN Ok(c.st, c.env, empty)
       ELSE LET b == execNode(node.children[2], c.env, c.st)
            IN IF b.sig = "break" THEN Ok(b.st, b.env, empty)
               ELSE IF b.sig \in {"ok", "continue"} THEN execWhile(node, b.env, b.st)
               ELSE b

\* struct UserFunction; closureEnv is the snapshot chain, <<>> for nullptr.
UserFunction(name, params, returns, body, closureEnv) ==
    [name |-> name, params |-> params, returns |-> returns, body |-> body,
     closureEnv |-> closureEnv]

\* Engine::execFunctionDef
execFunctionDef(node, env, st) ==
    LET func == UserFunction(node.strValue, node.paramNames, node.returnNames,
                             node.children[1], <<>>)
    IN Ok([st EXCEPT !.userFuncs = VarSet(@, func.name, func)], env, empty)

\* Engine::execExprStmt
execExprStmt(node, env, st) ==
    LET val == execNode(node.children[1], env, st)
    IN IF val.sig # "ok" THEN val
       ELSE IF ~suppressOutput(node) /\ ~isEmpty(val.val)
       THEN LET w == Environment_set(val.st, val.env, "ans", val.val)
            IN Ok(displayValue(w.st, "ans"), w.env, val.val)
       ELSE val

\* "__anon_" + std::to_string(id)
anonName(id) == "__anon_" \o ToString(id)

\* History of a creation: whether env was globalEnv_, the names bound in the
\* scopes the snapshot copies, and the names the root bound.
CreationSite(st, env) ==
    [top |-> env = <<>>,
     names |-> IF env = <<>> THEN DOMAIN st.globalEnv.vars
               ELSE UNION {DOMAIN env[i].vars : i \in 1..Len(env)},
     root |-> DOMAIN st.globalEnv.vars]

\* Engine::execAnonFunc
execAnonFunc(node, env, st) ==
    IF node.strValue # "" /\ node.children = <<>>
    THEN Ok(st, env, funcHandle(node.strValue))
    ELSE LET id == st.anonCounter
             name == anonName(id)
             body == [makeNode("BLOCK") EXCEPT !.children =
                        <<[makeNode("ASSIGN") EXCEPT
                             !.children = <<Id("__result__"), node.children[1]>>,
                             !.suppressOutput = TRUE]>>]
             uf == UserFunction(name, node.paramNames, <<"__result__">>, body,
                                snapshot(st, env))
         IN Ok([st EXCEPT !.anonCounter = id + 1,
                          !.userFuncs = VarSet(@, name, uf),
                          !.site = VarSet(@, name, CreationSite(st, env))],
               env, funcHandle(name))

\* A try that handles whatever leaves its body, the three signals included.
tryCatchingSignals(node, env, st) ==
    LET b == execNode(node.children[1], env, st)
    IN IF b.sig = "ok" THEN b
       ELSE IF Len(node.children) = 1 THEN Ok(b.st, b.env, empty)
       ELSE execNode(node.children[2], b.env, b.st)

\* Engine::execTryCatch : the three signals are rethrown; a std::exception
\* runs the catch block, after binding the error struct when it is named.
execTryCatch(node, env, st) ==
    LET b == execNode(node.children[1], env, st)
    IN IF b.sig # "error" THEN b
       ELSE IF Len(node.children) > 1
       THEN IF node.strValue # ""
            THEN LET err == setField(setField(structure, "message", fromString(b.msg)),
                                     "identifier", fromString("MLAB:error"))
                     w == Environment_set(b.st, b.env, node.strValue, err)
                 IN execNode(node.children[2], w.env, w.st)
            ELSE execNode(node.children[2], b.env, b.st)
       ELSE Ok(b.st, b.env, empty)

\* Engine::execGlobalPersistent
RECURSIVE declareFrom(_, _, _, _)
declareFrom(names, k, env, st) ==
    IF k > Len(names) THEN Ok(st, env, empty)
    ELSE LET d == Environment_declareGlobal(st, env, names[k])
             st2 == IF GlobalStore_get(d.st.store, names[k]) = NullValue
                    THEN [d.st EXCEPT !.store = GlobalStore_set(@, names[k], empty)]
                    ELSE d.st
         IN declareFrom(names, k + 1, d.env, st2)

execGlobalPersistent(node, env, st) == declareFrom(node.paramNames, 1, env, st)

\* RecursionGuard::RecursionGuard : ++depth_; the caller tests depth_ > maxDepth
\* on the result, and the constructor throws when it holds.
RecursionGuard_enter(st) == [st EXCEPT !.depth = @ + 1]

\* RecursionGuard::~RecursionGuard : --depth_.  It runs for a guard whose
\* constructor completed, on every way out of its scope.
RecursionGuard_exit(st) == [st EXCEPT !.depth = @ - 1]

\* The local environment of a call: the parameters bound in order, nargin,
\* nargout, and the return names not bound yet set to empty.
RECURSIVE bindParams(_, _, _, _)
bindParams(v, params, args, k) ==
    IF k > Len(params) \/ k > Len(args) THEN v
    ELSE bindParams(VarSet(v, params[k], args[k]), params, args, k + 1)

RECURSIVE initReturns(_, _, _)
initReturns(v, returns, k) ==
    IF k > Len(returns) THEN v
    ELSE initReturns(IF returns[k] \in DOMAIN v THEN v ELSE VarSet(v, returns[k], empty),
                     returns, k + 1)

\* The result list: returns[i] for i < nout, read with getLocal, then get,
\* empty when neither finds it.
RECURSIVE collectResults(_, _, _, _, _, _)
collectResults(returns, nout, k, env, st, acc) ==
    IF k > Len(returns) \/ k > nout THEN acc
    ELSE LET loc == Environment_getLocal(st, env, returns[k])
             val == IF loc # NullValue THEN loc ELSE Environment_get(st, env, returns[k])
         IN collectResults(returns, nout, k + 1, env, st,
                           Append(acc, IF val # NullValue THEN val ELSE empty))

\* Engine::callUserFunctionMulti.  env is the caller's environment, which the
\* call does not touch (the root is reached through the engine state).
callUserFunctionMulti(func, args, env, nout, st) ==
    LET g == RecursionGuard_enter(st)
    IN IF g.depth > g.maxDepth
       THEN Throw(g, env, "Maximum recursion depth exceeded")
       ELSE LET v1 == bindParams(NoVars, func.params, args, 1)
                v2 == VarSet(VarSet(v1, "nargin", scalar(Len(args))), "nargout", scalar(nout))
                v3 == initReturns(v2, func.returns, 1)
                localEnv == <<Scope(v3, {})>> \o func.closureEnv
                b == execNode(func.body, localEnv, g)
            IN IF b.sig \in {"ok", "return"}
               THEN OkMulti(RecursionGuard_exit(b.st), env,
                            collectResults(func.returns, nout, 1, b.env, b.st, <<>>))
               ELSE R(RecursionGuard_exit(b.st), env, b.sig, b.val, b.vals, b.msg)

\* Engine::callUserFunction
callUserFunction(func, args, env, st) ==
    LET n == IF Len(func.returns) > 1 THEN Len(func.returns) ELSE 1
    IN First(callUserFunctionMulti(func, args, env, n, st))

(***************************************************************************)
(* Indexing with one subscript (linear indexing).  Indices are zero-based  *)
(* as in the code.  The trees of this model index with one subscript; the  *)
(* forms with two and three subscripts are not part of it.                 *)
(***************************************************************************)
\* *var = val for the MValue* var that Environment::get(name) returned: the
\* write lands in the scope (or the global store) where get found the name.
RECURSIVE Environment_putAt(_, _, _, _, _)
Environment_putAt(st, env, k, name, val) ==
    LET sc == ScopeAt(st, env, k)
    IN IF name \in sc.globals THEN SE([st EXCEPT !.store = GlobalStore_set(@, name, val)], env)
       ELSE IF name \in DOMAIN sc.vars
       THEN (IF k > Len(env) THEN SE([st EXCEPT !.globalEnv.vars = VarSet(@, name, val)], env)
             ELSE SE(st, [env EXCEPT ![k].vars = VarSet(@, name, val)]))
       ELSE IF k > Len(env) THEN SE(st, env)
       ELSE Environment_putAt(st, env, k + 1, name, val)

Environment_put(st, env, name, val) == Environment_putAt(st, env, 1, name, val)

\* The zero element of a buffer: 0, and the NUL character for a char array.
ZeroOf(t) == IF t = "CHAR" THEN "" ELSE 0

\* MValue::resize (2-D) : a new zero-filled buffer, the old elements copied
\* column by column; a kind without element size keeps its content.
resize(v, newRows, newCols) ==
    IF v.type \in {"DOUBLE", "LOGICAL", "CHAR"}
    THEN [v EXCEPT !.rows = newRows, !.cols = newCols,
                   !.data = [p \in 1..(newRows * newCols) |->
                               LET r == (p - 1) % newRows
                                   c == (p - 1) \div newRows
                               IN IF hasBuffer(v) /\ r < v.rows /\ c < v.cols
                                  THEN v.data[c * v.rows + r + 1] ELSE ZeroOf(v.type)]]
    ELSE [v EXCEPT !.rows = newRows, !.cols = newCols]

\* MValue::ensureSize
ensureSize(v, linearIdx) ==
    LET v1 == IF v.type = "EMPTY" THEN MV("DOUBLE", 1, 1, <<0>>) ELSE v
        needed == linearIdx + 1
    IN IF needed > numel(v1)
       THEN (IF v1.rows = 1 \/ v1.cols = 1 \/ v1.rows <= 1 THEN resize(v1, 1, needed)
             ELSE resize(v1, v1.rows, (needed + v1.rows - 1) \div v1.rows))
       ELSE v1

RECURSIVE ensureAll(_, _, _)
ensureAll(v, indices, k) ==
    IF k > Len(indices) THEN v ELSE ensureAll(ensureSize(v, indices[k]), indices, k + 1)

\* The positions of the nonzero elements, zero-based (logical indexing).
RECURSIVE truePositions(_, _)
truePositions(d, k) ==
    IF k > Len(d) THEN <<>>
    ELSE (IF d[k] # 0 THEN <<k - 1>> ELSE <<>>) \o truePositions(d, k + 1)

\* An element of a DOUBLE array is an integer or one of the symbols of
\* RootConstants (pi, eps, inf, nan).
isSymbol(d) == ToString(d) \in {ToString(c) : c \in {"pi", "eps", "inf", "nan"}}

\* The integer part of the symbols that have one: pi = 3.14..., eps = 2.2e-16.
truncSymbol(d) == IF d = "pi" THEN 3 ELSE 0

\* "idx < 1.0 || idx != std::floor(idx)" in Engine::resolveIndex: inf passes
\* (it equals its floor), nan does not (it equals nothing).
notPositiveInteger(d) == IF isSymbol(d) THEN d # "inf" ELSE d < 1

\* The value that stands for SIZE_MAX, the result of 0 - 1 on a size_t: as an
\* index it is past the end of every array.
WrappedIndex == 0 - 1

\* static_cast<size_t>(d) - 1 for the element d: the cast truncates toward
\* zero (pi to 3, eps to 0); it is undefined where the truncated value is no
\* size_t (d <= -1, inf, nan: ub = TRUE).
castIndex(d) ==
    IF isSymbol(d)
    THEN (IF d \in {"pi", "eps"} THEN [ub |-> FALSE, idx |-> truncSymbol(d) - 1]
          ELSE [ub |-> TRUE, idx |-> WrappedIndex])
    ELSE IF d <= 0 - 1 THEN [ub |-> TRUE, idx |-> WrappedIndex]
    ELSE [ub |-> FALSE, idx |-> d - 1]

\* "i >= size" for an index that may have wrapped.
pastEnd(i, size) == i = WrappedIndex \/ i >= size

\* Engine::resolveIndex : the index list is in vals.  dim is the subscript
\* position (0 for rows, 1 for columns) and ndims the number of subscripts: a
\* colon selects all of numel (ndims = 1) or all of that dimension.  r is the
\* result of execNode(indexExpr, env).
indicesOf(r, array, dim, ndims) ==
    IF r.sig # "ok" THEN r
    ELSE IF isChar(r.val) /\ r.val.data = <<":">>
    THEN OkMulti(r.st, r.env,
                 [k \in 1..(IF ndims = 1 THEN numel(array)
                            ELSE IF dim = 0 THEN array.rows ELSE array.cols) |-> k - 1])
    ELSE IF isLogical(r.val) THEN OkMulti(r.st, r.env, truePositions(r.val.data, 1))
    ELSE IF r.val.type = "DOUBLE"
    THEN (IF \E k \in 1..numel(r.val) : notPositiveInteger(r.val.data[k])
          THEN Throw(r.st, r.env, "Array indices must be positive integers")
          ELSE IF \E k \in 1..numel(r.val) : castIndex(r.val.data[k]).ub
          THEN Signal(r.st, r.env, "ub")
          ELSE OkMulti(r.st, r.env, [k \in 1..numel(r.val) |-> r.val.data[k] - 1]))
    ELSE Throw(r.st, r.env, "Invalid index type: " \o mtypeName(r.val.type))

resolveIndex(indexExpr, array, dim, ndims, env, st) ==
    indicesOf(execNode(indexExpr, env, st), array, dim, ndims)

\* Engine::execIndexAccess with one subscript.
execIndexAccess(var, callNode, env, st) ==
    LET nargs == Len(callNode.children) - 1
        ix == resolveIndex(callNode.children[2], var, 0, 1, env, st)
        n == Len(ix.vals)
    IN IF nargs # 1
       THEN (IF isChar(var) THEN Throw(st, env, "Multi-dimensional char indexing not supported")
             ELSE IF isCell(var)
             THEN Throw(st, env, "Cell indexing with more than 2 dimensions not supported")
             ELSE Throw(st, env, "Too many indexing dimensions (max 3)"))
       ELSE IF ix.sig # "ok" THEN ix
       ELSE IF \E k \in 1..n : ix.vals[k] >= numel(var)
       THEN Throw(ix.st, ix.env, "Index exceeds array dimensions")
       ELSE IF isChar(var)
       THEN Ok(ix.st, ix.env, MV("CHAR", 1, n, [k \in 1..n |-> var.data[ix.vals[k] + 1]]))
       ELSE IF isCell(var)
       THEN Ok(ix.st, ix.env, IF n = 1 THEN var.data[ix.vals[1] + 1]
                              ELSE MV("CELL", 1, n, [k \in 1..n |-> var.data[ix.vals[k] + 1]]))
       ELSE IF n = 1
       THEN Ok(ix.st, ix.env, IF isLogical(var) THEN logicalScalar(var.data[ix.vals[1] + 1] # 0)
                              ELSE scalar(var.data[ix.vals[1] + 1]))
       ELSE Ok(ix.st, ix.env, MV(IF isLogical(var) THEN "LOGICAL" ELSE "DOUBLE", 1, n,
                                 [k \in 1..n |-> var.data[ix.vals[k] + 1]]))

\* data[indices[k]] = sv for every k (zero-based indices into a 1-based sequence).
WriteScalar(data, indices, sv) ==
    [p \in 1..Len(data) |->
       IF \E k \in 1..Len(indices) : indices[k] + 1 = p THEN sv ELSE data[p]]

\* data[indices[k]] = src[k] for k = 1..n in order: the last write to a place wins.
WriteSeq(data, indices, src, n) ==
    [p \in 1..Len(data) |->
       IF \E k \in 1..n : indices[k] + 1 = p
       THEN src[CHOOSE k \in 1..n : indices[k] + 1 = p
                                    /\ \A j \in 1..n : indices[j] + 1 = p => j <= k]
       ELSE data[p]]

Min(a, b) == IF a < b THEN a ELSE b

Max(a, b) == IF a > b THEN a ELSE b

\* "for (auto r : idx) maxR = std::max(maxR, r + 1)" : the extent the index
\* list idx (zero-based) reaches, 0 for an empty list.
RECURSIVE MaxExtent(_, _)
MaxExtent(idx, k) ==
    IF k > Len(idx) THEN 0 ELSE Max(idx[k] + 1, MaxExtent(idx, k + 1))

\* dims.sub2ind(r, c) for every selected place, in the order of the loops
\* "for c in colIdx, for r in rowIdx" (zero-based, column-major, rows per column).
SubPositions(rowIdx, colIdx, rows) ==
    [k \in 1..(Len(rowIdx) * Len(colIdx)) |->
        colIdx[((k - 1) \div Len(rowIdx)) + 1] * rows + rowIdx[((k - 1) % Len(rowIdx)) + 1]]

\* "if (maxR > var->dims().rows() || maxC > var->dims().cols()) var->resize(...)"
\* in Engine::execIndexedAssign, nargs == 2.
growTo(var, maxR, maxC) ==
    IF maxR > var.rows \/ maxC > var.cols
    THEN resize(var, Max(var.rows, maxR), Max(var.cols, maxC)) ELSE var

\* The statement's result once the variable holds w (a store and its environment).
stored(w) == Ok(w.st, w.env, empty)

\* Engine::execIndexedAssign, nargs == 2, the writes: g is the store after the
\* growth, grown the variable in it, pos the selected places.
writeGrown(varName, grown, pos, rhs, g) ==
    IF grown.type # "DOUBLE" THEN Throw(g.st, g.env, "Not a double array")
    ELSE IF isScalar(rhs) /\ ~canScalar(rhs)
    THEN Throw(g.st, g.env, "Cannot convert " \o mtypeName(rhs.type) \o " to scalar")
    ELSE IF ~isScalar(rhs) /\ rhs.type # "DOUBLE" THEN Ok(g.st, g.env, empty)
    ELSE stored(Environment_put(g.st, g.env, varName,
                    [grown EXCEPT !.data =
                        IF isScalar(rhs) THEN WriteScalar(@, pos, toScalar(rhs))
                        ELSE WriteSeq(@, pos, rhs.data, Min(Len(pos), numel(rhs)))]))

\* Engine::execIndexedAssign, nargs == 2, after the growth to grown.
writeInto(varName, grown, rowIdx, colIdx, rhs, env, st) ==
    writeGrown(varName, grown, SubPositions(rowIdx, colIdx, grown.rows), rhs,
               Environment_put(st, env, varName, grown))

\* Engine::execIndexedAssign, nargs == 2, from the resolved index lists on: the
\* variable grows to hold the largest row and column, then the scalar or the
\* elements of rhs (as many as there are) are written.
writeSubscripts(varName, rowIdx, colIdx, rhs, env, st) ==
    writeInto(varName,
              growTo(Environment_get(st, env, varName),
                     MaxExtent(rowIdx, 1), MaxExtent(colIdx, 1)),
              rowIdx, colIdx, rhs, env, st)

\* Engine::execIndexedAssign, nargs == 2, once both subscripts are resolved
\* (ri the rows, ci the columns).
writeResolved(varName, ri, ci, rhs) ==
    IF ci.sig # "ok" THEN ci
    ELSE writeSubscripts(varName, ri.vals, ci.vals, rhs, ci.env, ci.st)

\* Engine::execIndexedAssign, nargs == 2 : the column subscript, resolved after
\* the row subscript.
resolveColumns(lhs, rhs, varName, ri) ==
    IF ri.sig # "ok" THEN ri
    ELSE writeResolved(varName, ri,
             resolveIndex(lhs.children[3], Environment_get(ri.st, ri.env, varName),
                          1, 2, ri.env, ri.st),
             rhs)

\* "if (!env->get(varName)) env->set(varName, MValue::empty())" in
\* Engine::execIndexedAssign: the variable is created empty when it is missing.
autoCreate(varName, env, st) ==
    IF Environment_get(st, env, varName) = NullValue
    THEN Environment_set(st, env, varName, empty) ELSE SE(st, env)

\* Engine::execIndexedAssign, nargs == 1, the char path: data[idx] is written
\* with no growth and no bounds check, so an index past the end (or any index
\* into a char array without buffer) is an out-of-bounds store, result "ub".
\* m is the number of characters written.
writeChars(varName, var, rhs, ix, m) ==
    IF \E k \in 1..m : ix.vals[k] >= numel(var) THEN Signal(ix.st, ix.env, "ub")
    ELSE stored(Environment_put(ix.st, ix.env, varName,
                    [var EXCEPT !.data =
                        IF Len(rhs.data) = 1 THEN WriteScalar(@, ix.vals, rhs.data[1])
                        ELSE WriteSeq(@, ix.vals, rhs.data, m)]))

\* Engine::execIndexedAssign, nargs == 1, the numeric path after ensureSize: g
\* is the store after the growth and grown the variable in it.  What this path
\* throws, it throws after the growth.
writeLinear(varName, grown, rhs, indices, g) ==
    IF isScalar(rhs) /\ ~canScalar(rhs)
    THEN Throw(g.st, g.env, "Cannot convert " \o mtypeName(rhs.type) \o " to scalar")
    ELSE IF ~(isScalar(rhs) \/ rhs.type = "DOUBLE") THEN Ok(g.st, g.env, empty)
    ELSE IF grown.type # "DOUBLE" THEN Throw(g.st, g.env, "Not a double array")
    ELSE stored(Environment_put(g.st, g.env, varName,
                    [grown EXCEPT !.data =
                        IF isScalar(rhs) THEN WriteScalar(@, indices, toScalar(rhs))
                        ELSE WriteSeq(@, indices, rhs.data,
                                      Min(Len(indices), numel(rhs)))]))

\* Engine::execIndexedAssign, nargs == 1, the numeric path: the variable grows
\* to hold every index (ensureSize) before anything is written.
writeEnsured(varName, grown, rhs, ix) ==
    writeLinear(varName, grown, rhs, ix.vals,
                Environment_put(ix.st, ix.env, varName, grown))

\* Engine::execIndexedAssign, nargs == 1, once the subscript is resolved: var0
\* is the variable before the subscript was evaluated, var the variable after.
writeElements(varName, var0, var, rhs, ix) ==
    IF isChar(var0) /\ isChar(rhs)
    THEN (IF ~canString(rhs) THEN Throw(ix.st, ix.env, "Not a char array")
          ELSE writeChars(varName, var, rhs, ix,
                          IF Len(rhs.data) = 1 THEN Len(ix.vals)
                          ELSE Min(Len(ix.vals), Len(rhs.data))))
    ELSE writeEnsured(varName, ensureAll(var, ix.vals, 1), rhs, ix)

\* Engine::execIndexedAssign, nargs == 1 : ix is the resolved subscript.
writeLinearIndex(varName, var0, rhs, ix) ==
    IF ix.sig # "ok" THEN ix
    ELSE writeElements(varName, var0, Environment_get(ix.st, ix.env, varName), rhs, ix)

\* Engine::execIndexedAssign on the variable var0, in the store pre in which it
\* exists.
assignSubscripts(lhs, rhs, varName, var0, pre) ==
    IF Len(lhs.children) - 1 = 2
    THEN resolveColumns(lhs, rhs, varName,
             resolveIndex(lhs.children[2], var0, 0, 2, pre.env, pre.st))
    ELSE IF Len(lhs.children) - 1 # 1 THEN Ok(pre.st, pre.env, empty)
    ELSE writeLinearIndex(varName, var0, rhs,
             resolveIndex(lhs.children[2], var0, 0, 1, pre.env, pre.st))

\* Engine::execIndexedAssign, after the target check and the creation of a
\* missing variable.
assignExisting(lhs, rhs, varName, pre) ==
    assignSubscripts(lhs, rhs, varName, Environment_get(pre.st, pre.env, varName), pre)

\* Engine::execIndexedAssign with one or two subscripts.
execIndexedAssign(lhs, rhs, env, st) ==
    IF lhs.children[1].type # "IDENTIFIER"
    THEN Throw(st, env, "Invalid indexed assignment target")
    ELSE assignExisting(lhs, rhs, lhs.children[1].strValue,
                        autoCreate(lhs.children[1].strValue, env, st))

\* The elements that stay: those whose zero-based position is not in indices.
RECURSIVE remainingFrom(_, _, _)
remainingFrom(d, indices, k) ==
    IF k > Len(d) THEN <<>>
    ELSE (IF \E j \in 1..Len(indices) : indices[j] = k - 1 THEN <<>> ELSE <<d[k]>>)
         \o remainingFrom(d, indices, k + 1)

\* The rows (or columns) that stay: the zero-based positions below n that are
\* not in idx ("if (r < R) delR[r] = true", then the rows with delR false).
KeptPositions(n, idx) == remainingFrom([k \in 1..n |-> k - 1], idx, 1)

\* The array var without its rows outside keptR (zero-based, ascending).
withRows(var, keptR) ==
    MV("DOUBLE", Len(keptR), var.cols,
       [p \in 1..(Len(keptR) * var.cols) |->
          var.data[((p - 1) \div Len(keptR)) * var.rows
                   + keptR[((p - 1) % Len(keptR)) + 1] + 1]])

\* The array var without its columns outside keptC (zero-based, ascending).
withCols(var, keptC) ==
    MV("DOUBLE", var.rows, Len(keptC),
       [p \in 1..(var.rows * Len(keptC)) |->
          var.data[keptC[((p - 1) \div var.rows) + 1] * var.rows
                   + ((p - 1) % var.rows) + 1]])

\* Engine::execDeleteAssign, nargs == 2, on the variable's value var.
deleteFrom(name, var, rowIdx, colIdx, env, st) ==
    IF Len(colIdx) = var.cols
    THEN stored(Environment_put(st, env, name,
                                withRows(var, KeptPositions(var.rows, rowIdx))))
    ELSE IF Len(rowIdx) = var.rows
    THEN stored(Environment_put(st, env, name,
                                withCols(var, KeptPositions(var.cols, colIdx))))
    ELSE Throw(st, env, "Deletion requires full row or column specification")

\* Engine::execDeleteAssign, nargs == 2, from the resolved index lists on: whole
\* rows go when the column list has as many entries as the array has columns,
\* whole columns when the row list has as many entries as it has rows.
deleteSubscripts(name, rowIdx, colIdx, env, st) ==
    deleteFrom(name, Environment_get(st, env, name), rowIdx, colIdx, env, st)

\* Engine::execDeleteAssign, nargs == 2, once both subscripts are resolved.
deleteResolved(name, ri, ci) ==
    IF ci.sig # "ok" THEN ci
    ELSE deleteSubscripts(name, ri.vals, ci.vals, ci.env, ci.st)

\* Engine::execDeleteAssign, nargs == 2 : the column subscript, resolved after
\* the row subscript.
deleteColumns(lhs, name, ri) ==
    IF ri.sig # "ok" THEN ri
    ELSE deleteResolved(name, ri,
             resolveIndex(lhs.children[3], Environment_get(ri.st, ri.env, name),
                          1, 2, ri.env, ri.st))

\* Engine::execDeleteAssign : A(idx) = [] and A(rows, cols) = [].
execDeleteAssign(node, env, st) ==
    LET lhs == node.children[1]
    IN IF lhs.type # "CALL" \/ lhs.children = <<>>
       THEN Throw(st, env, "Invalid delete assignment syntax")
       ELSE IF lhs.children[1].type # "IDENTIFIER" THEN Throw(st, env, "Invalid delete target")
       ELSE LET name == lhs.children[1].strValue
                var0 == Environment_get(st, env, name)
            IN IF var0 = NullValue THEN Throw(st, env, "Undefined variable: " \o name)
               ELSE IF Len(lhs.children) - 1 = 1 /\ var0.type = "DOUBLE"
               THEN LET ix == resolveIndex(lhs.children[2], var0, 0, 1, env, st)
                        var == Environment_get(ix.st, ix.env, name)
                        remaining == remainingFrom(var.data, ix.vals, 1)
                        result == IF var.rows = 1 THEN MV("DOUBLE", 1, Len(remaining), remaining)
                                  ELSE MV("DOUBLE", Len(remaining), 1, remaining)
                        w == Environment_put(ix.st, ix.env, name, result)
                    IN IF ix.sig # "ok" THEN ix ELSE Ok(w.st, w.env, empty)
               ELSE IF Len(lhs.children) - 1 = 2 /\ var0.type = "DOUBLE"
               THEN deleteColumns(lhs, name, resolveIndex(lhs.children[2], var0, 0, 2, env, st))
               ELSE Ok(st, env, empty)

\* Engine::colonCount on integers: floor((stop - start) / step + 0.5) + 1, then
\* the two corrections; ok = FALSE when the step is zero.
colonCount(start, step, stop) ==
    LET num == IF step > 0 THEN 2 * (stop - start) + step ELSE 0 - (2 * (stop - start) + step)
        den == IF step > 0 THEN 2 * step ELSE 0 - 2 * step
        n0 == (num \div den) + 1
        n1 == IF n0 < 0 THEN 0 ELSE n0
        last == start + (n1 - 1) * step
        n2 == IF step > 0 /\ 2 * last > 2 * stop + step THEN n1 - 1
              ELSE IF step < 0 /\ 2 * last < 2 * stop + step THEN n1 - 1
              ELSE n1
    IN IF (step > 0 /\ stop < start) \/ (step < 0 /\ stop > start) THEN 0
       ELSE IF n2 < 0 THEN 0 ELSE n2

\* Engine::execColonExpr
execColonExpr(node, env, st) ==
    LET nc == Len(node.children)
        a == execNode(node.children[1], env, st)
        b == execNode(node.children[2], a.env, a.st)
        c == execNode(node.children[3], b.env, b.st)
        last == IF nc = 2 THEN b ELSE c
        s == toScalar(a.val)
        step == IF nc = 2 THEN 1 ELSE toScalar(b.val)
        e == toScalar(last.val)
        count == colonCount(s, step, e)
    IN IF nc = 0 THEN Ok(st, env, fromString(":"))
       ELSE IF nc \notin {2, 3} THEN Ok(st, env, empty)
       ELSE IF a.sig # "ok" THEN a
       ELSE IF ~canScalar(a.val) THEN Throw(a.st, a.env, "Cannot convert to scalar")
       ELSE IF b.sig # "ok" THEN b
       ELSE IF ~canScalar(b.val) THEN Throw(b.st, b.env, "Cannot convert to scalar")
       ELSE IF nc = 3 /\ c.sig # "ok" THEN c
       ELSE IF nc = 3 /\ ~canScalar(c.val) THEN Throw(c.st, c.env, "Cannot convert to scalar")
       ELSE IF step = 0 THEN Throw(last.st, last.env, "Colon step cannot be zero")
       ELSE Ok(last.st, last.env,
               MV("DOUBLE", 1, count,
                  [k \in 1..count |->
                     LET x == s + (k - 1) * step
                     IN IF nc = 3 /\ k = count /\ count >= 2
                           /\ ((step > 0 /\ x > e) \/ (step < 0 /\ x < e))
                        THEN e ELSE x]))

\* The elements of the rows of a matrix literal, evaluated in order: node is
\* the literal, (i, j) the next element, rows the RowInfo list built so far
\* (each a sequence of values, the empty values skipped, a logical scalar
\* turned into a double), row the one being filled.  The list comes in vals.
RECURSIVE evalRows(_, _, _, _, _, _, _)
evalRows(node, i, j, rows, row, env, st) ==
    IF i > Len(node.children) THEN OkMulti(st, env, rows)
    ELSE IF j > Len(node.children[i].children)
    THEN evalRows(node, i + 1, 1, IF row = <<>> THEN rows ELSE Append(rows, row), <<>>, env, st)
    ELSE LET r == execNode(node.children[i].children[j], env, st)
             v == IF isLogical(r.val) /\ isScalar(r.val)
                  THEN scalar(B2N(toBool(r.val))) ELSE r.val
         IN IF r.sig # "ok" THEN r
            ELSE evalRows(node, i, j + 1, rows,
                          IF isEmpty(r.val) THEN row ELSE Append(row, v), r.env, r.st)

\* ElemInfo::rows and ElemInfo::cols
ElemRows(v) == IF v.type = "DOUBLE" THEN v.rows ELSE 1
ElemCols(v) == IF isChar(v) THEN numel(v) ELSE IF v.type = "DOUBLE" THEN v.cols ELSE 1

RECURSIVE SumCols(_, _)
SumCols(row, k) == IF k > Len(row) THEN 0 ELSE ElemCols(row[k]) + SumCols(row, k + 1)

RECURSIVE MaxRows(_, _)
MaxRows(row, k) ==
    IF k > Len(row) THEN 1
    ELSE LET m == MaxRows(row, k + 1)
         IN IF ElemRows(row[k]) > m THEN ElemRows(row[k]) ELSE m

RECURSIVE SumHeights(_, _)
SumHeights(rows, k) == IF k > Len(rows) THEN 0 ELSE MaxRows(rows[k], 1) + SumHeights(rows, k + 1)

RECURSIVE concatChars(_, _)
concatChars(row, k) == IF k > Len(row) THEN <<>> ELSE row[k].data \o concatChars(row, k + 1)

\* The element of the numeric result at row rr, column cc (zero-based): the
\* value the one element covering that place wrote there, 0 where none did.
RECURSIVE ElemAt(_, _, _, _, _)
ElemAt(row, k, colOff, r, cc) ==
    IF k > Len(row) THEN 0
    ELSE LET el == row[k]
         IN IF cc >= colOff + ElemCols(el) THEN ElemAt(row, k + 1, colOff + ElemCols(el), r, cc)
            ELSE IF el.type = "DOUBLE"
            THEN (IF r >= el.rows THEN 0
                  ELSE IF isScalar(el) THEN el.data[1]
                  ELSE el.data[(cc - colOff) * el.rows + r + 1])
            ELSE 0

RECURSIVE CellAt(_, _, _, _, _)
CellAt(rows, k, rowOff, rr, cc) ==
    IF k > Len(rows) THEN 0
    ELSE IF rr >= rowOff + MaxRows(rows[k], 1)
    THEN CellAt(rows, k + 1, rowOff + MaxRows(rows[k], 1), rr, cc)
    ELSE ElemAt(rows[k], 1, 0, rr - rowOff, cc)

\* Engine::execMatrixLiteral for elements that are numeric arrays, logical
\* scalars or, in a literal of one row of strings, char arrays.  Char arrays
\* stacked in rows or mixed with numbers are not among the trees of the model.
execMatrixLiteral(node, env, st) ==
    LET ev == evalRows(node, 1, 1, <<>>, <<>>, env, st)
        rows == ev.vals
        allChar == \A i \in 1..Len(rows) : \A j \in 1..Len(rows[i]) : isChar(rows[i][j])
        others == UNION {{rows[i][j] : j \in 1..Len(rows[i])} : i \in 1..Len(rows)}
        totalRows == SumHeights(rows, 1)
        totalCols == SumCols(rows[1], 1)
    IN IF node.children = <<>> THEN Ok(st, env, empty)
       ELSE IF ev.sig # "ok" THEN ev
       ELSE IF rows = <<>> THEN Ok(ev.st, ev.env, empty)
       ELSE IF allChar
       THEN (IF Len(rows) = 1
             THEN LET d == concatChars(rows[1], 1) IN Ok(ev.st, ev.env, MV("CHAR", 1, Len(d), d))
             ELSE Throw(ev.st, ev.env, "char matrix literal"))
       ELSE IF \E i \in 1..Len(rows) : SumCols(rows[i], 1) # totalCols
       THEN Throw(ev.st, ev.env, "Dimensions of arrays being concatenated are not consistent")
       ELSE IF \E v \in others : v.type # "DOUBLE" /\ isScalar(v) /\ ~canScalar(v)
       THEN Throw(ev.st, ev.env, "Cannot convert to scalar")
       ELSE Ok(ev.st, ev.env,
               MV("DOUBLE", totalRows, totalCols,
                  [p \in 1..(totalRows * totalCols) |->
                     CellAt(rows, 1, 0, (p - 1) % totalRows, (p - 1) \div totalRows)]))

(***************************************************************************)
(* Cell arrays.  A cell is MV("CELL", rows, cols, elements): the elements  *)
(* are values, in column-major order, EMPTY where nothing was stored.      *)
(***************************************************************************)
\* MValue::cell : rows x cols default-constructed (empty) elements
cell(r, c) == MV("CELL", r, c, [k \in 1..(r * c) |-> empty])

\* The elements of a cell literal evaluated row by row: (r, c) is the next
\* element, acc the values so far (row-major), in vals at the end.
RECURSIVE evalCellRows(_, _, _, _, _, _)
evalCellRows(node, r, c, acc, env, st) ==
    IF r > Len(node.children) THEN OkMulti(st, env, acc)
    ELSE IF c > Len(node.children[1].children)
    THEN evalCellRows(node, r + 1, 1, acc, env, st)
    ELSE LET e == execNode(node.children[r].children[c], env, st)
         IN IF e.sig # "ok" THEN e
            ELSE evalCellRows(node, r, c + 1, Append(acc, e.val), e.env, e.st)

\* Engine::execCellLiteral : {} is the 0 x 0 cell; the rows of { a b ; c d }
\* must have one length.
execCellLiteral(node, env, st) ==
    IF node.children = <<>> THEN Ok(st, env, cell(0, 0))
    ELSE IF node.children[1].type # "BLOCK"
    THEN LET a == evalArgs(node, 1, env, st, <<>>)
         IN IF a.sig # "ok" THEN a
            ELSE Ok(a.st, a.env, MV("CELL", 1, Len(a.vals), a.vals))
    ELSE IF \E r \in 1..Len(node.children) :
               Len(node.children[r].children) # Len(node.children[1].children)
    THEN Throw(st, env, "Dimensions of cell arrays being concatenated are not consistent")
    ELSE LET numRows == Len(node.children)
             numCols == Len(node.children[1].children)
             ev == evalCellRows(node, 1, 1, <<>>, env, st)
         IN IF ev.sig # "ok" THEN ev
            ELSE Ok(ev.st, ev.env,
                    MV("CELL", numRows, numCols,
                       [p \in 1..(numRows * numCols) |->
                          ev.vals[((p - 1) % numRows) * numCols
                                  + ((p - 1) \div numRows) + 1]]))

\* MValue::cellAt(i) on the cell obj, read: an index past the end throws.
cellAtRead(obj, k, env, st) ==
    IF k.ub THEN Signal(st, env, "ub")
    ELSE IF pastEnd(k.idx, Len(obj.data)) THEN Throw(st, env, "Cell index out of bounds")
    ELSE Ok(st, env, obj.data[k.idx + 1])

\* Engine::execCellIndex with nidx == 2, from the evaluated row subscript on.
cellIndexColumn(node, obj, ridx) ==
    IF ridx.sig # "ok" THEN ridx
    ELSE LET cidx == execNode(node.children[3], ridx.env, ridx.st)
             r == castIndex(toScalar(ridx.val))
             c == castIndex(toScalar(cidx.val))
         IN IF cidx.sig # "ok" THEN cidx
            ELSE IF ~canScalar(ridx.val) \/ ~canScalar(cidx.val)
            THEN Throw(cidx.st, cidx.env, "Cannot convert to scalar")
            ELSE IF r.ub \/ c.ub THEN Signal(cidx.st, cidx.env, "ub")
            ELSE IF pastEnd(r.idx, obj.rows) \/ pastEnd(c.idx, obj.cols)
            THEN Throw(cidx.st, cidx.env, "Index exceeds array dimensions")
            ELSE cellAtRead(obj, [ub |-> FALSE, idx |-> c.idx * obj.rows + r.idx],
                            cidx.env, cidx.st)

\* Engine::execCellIndex with nidx == 1, from the evaluated subscript on.
cellIndexOne(obj, idx) ==
    IF idx.sig # "ok" THEN idx
    ELSE IF ~canScalar(idx.val) THEN Throw(idx.st, idx.env, "Cannot convert to scalar")
    ELSE cellAtRead(obj, castIndex(toScalar(idx.val)), idx.env, idx.st)

\* Engine::execCellIndex : obj{idx} and obj{r, c}
execCellIndex(node, env, st) ==
    LET obj == execNode(node.children[1], env, st)
    IN IF obj.sig # "ok" THEN obj
       ELSE IF ~isCell(obj.val)
       THEN Throw(obj.st, obj.env, "Cell indexing {}-operator requires a cell array")
       ELSE IF Len(node.children) - 1 = 1
       THEN cellIndexOne(obj.val, execNode(node.children[2], obj.env, obj.st))
       ELSE IF Len(node.children) - 1 = 2
       THEN cellIndexColumn(node, obj.val, execNode(node.children[2], obj.env, obj.st))
       ELSE Throw(obj.st, obj.env,
                  "Cell indexing with more than 2 dimensions not supported")

\* "var->cellAt(static_cast<size_t>(idx.toScalar()) - 1) = rhs" in
\* Engine::execCellAssign, from the evaluated subscript on.
cellAtWrite(name, rhs, idx) ==
    IF idx.sig # "ok" THEN idx
    ELSE IF ~canScalar(idx.val) THEN Throw(idx.st, idx.env, "Cannot convert to scalar")
    ELSE LET k == castIndex(toScalar(idx.val))
             var == Environment_get(idx.st, idx.env, name)
             w == Environment_put(idx.st, idx.env, name,
                                  [var EXCEPT !.data[k.idx + 1] = rhs])
         IN IF k.ub THEN Signal(idx.st, idx.env, "ub")
            ELSE IF pastEnd(k.idx, Len(var.data))
            THEN Throw(idx.st, idx.env, "Cell index out of bounds")
            ELSE Ok(w.st, w.env, empty)

\* Engine::execCellAssign : name{idx} = rhs
execCellAssign(lhs, rhs, env, st) ==
    IF lhs.children[1].type # "IDENTIFIER"
    THEN Throw(st, env, "Invalid cell assignment target")
    ELSE IF Environment_get(st, env, lhs.children[1].strValue) = NullValue
    THEN Throw(st, env, "Undefined variable: " \o lhs.children[1].strValue)
    ELSE IF ~isCell(Environment_get(st, env, lhs.children[1].strValue))
    THEN Throw(st, env, "Cell indexing on non-cell variable: " \o lhs.children[1].strValue)
    ELSE cellAtWrite(lhs.children[1].strValue, rhs, execNode(lhs.children[2], env, st))

(***************************************************************************)
(* Struct fields: s.f = v, a.b.c = v and the read obj.f.                   *)
(***************************************************************************)
\* The names along the chain of a field target, outermost last: <<"b", "c">>
\* for a.b.c; and the node the chain starts at (the identifier a).
RECURSIVE fieldPath(_)
fieldPath(node) ==
    IF node.type = "FIELD_ACCESS"
    THEN Append(fieldPath(node.children[1]), node.strValue) ELSE <<>>

RECURSIVE fieldBase(_)
fieldBase(node) ==
    IF node.type = "FIELD_ACCESS" THEN fieldBase(node.children[1]) ELSE node

\* Engine::resolveFieldLValue(...) = rhs on the value v, along the names of
\* path from the k-th on: a value that is no struct is replaced by an empty
\* struct, a field that is missing is created.
RECURSIVE assignField(_, _, _, _)
assignField(v, path, k, rhs) ==
    IF k > Len(path) THEN rhs
    ELSE setField(IF v.type = "STRUCT" THEN v ELSE structure, path[k],
                  assignField(field(IF v.type = "STRUCT" THEN v ELSE structure, path[k]),
                              path, k + 1, rhs))

\* Engine::resolveFieldLValue, the identifier at the start of the chain: a
\* missing variable is created with Environment::set.
fieldTarget(name, env, st) ==
    IF Environment_get(st, env, name) = NullValue
    THEN Environment_set(st, env, name, structure) ELSE SE(st, env)

\* The write through the MValue* that Environment::get returned for name, in
\* the store pre where the variable exists.
writeField(name, path, rhs, pre) ==
    stored(Environment_put(pre.st, pre.env, name,
               assignField(Environment_get(pre.st, pre.env, name), path, 1, rhs)))

\* Engine::execFieldAssign
execFieldAssign(lhs, rhs, env, st) ==
    IF fieldBase(lhs).type # "IDENTIFIER"
    THEN Throw(st, env, "Invalid field assignment target")
    ELSE writeField(fieldBase(lhs).strValue, fieldPath(lhs), rhs,
                    fieldTarget(fieldBase(lhs).strValue, env, st))

\* Engine::execFieldAccess, on the evaluated object.
fieldOf(obj, name) ==
    IF obj.sig # "ok" THEN obj
    ELSE IF obj.val.type # "STRUCT"
    THEN Throw(obj.st, obj.env, "Dot indexing requires a struct, got "
                                \o mtypeName(obj.val.type))
    ELSE IF ~hasField(obj.val, name)
    THEN Throw(obj.st, obj.env, "Reference to non-existent field '" \o name \o "'")
    ELSE Ok(obj.st, obj.env, field(obj.val, name))

\* Engine::execFieldAccess
execFieldAccess(node, env, st) ==
    fieldOf(execNode(node.children[1], env, st), node.strValue)

(***************************************************************************)
(* The engine as a state machine: Engine::eval called again and again on   *)
(* one engine, each time on one of the programs below (given as the tree   *)
(* the parser builds for the source text in the comment).                  *)
(***************************************************************************)
\* The number of evaluations made on one engine.
MaxEvals == 3

\* The largest limit the engine is configured with (setMaxRecursionDepth).
MaxDepth == 2

\* Parser::parsePrimary : STRING
StrN(s) == [makeNode("STRING_LITERAL") EXCEPT !.strValue = s]

BreakN == makeNode("BREAK_STMT")
ContinueN == makeNode("CONTINUE_STMT")
ReturnN == makeNode("RETURN_STMT")

\* a = 1;
ProgSetA1 == Block(<<AssignN(Id("a"), Num(1))>>)

\* a = 2;
ProgSetA2 == Block(<<AssignN(Id("a"), Num(2))>>)

\* f = @() a;
ProgMakeF == Block(<<AssignN(Id("f"), AnonFuncN(<<>>, Id("a")))>>)

\* r = f();
ProgCallF == Block(<<AssignN(Id("r"), CallN("f", <<>>))>>)

\* g = mk();
ProgMakeG == Block(<<AssignN(Id("g"), CallN("mk", <<>>))>>)

\* r = g();
ProgCallG == Block(<<AssignN(Id("r"), CallN("g", <<>>))>>)

\* v = rec(0);
ProgRecurse == Block(<<AssignN(Id("v"), CallN("rec", <<Num(0)>>))>>)

\* [p, q] = one();
ProgMultiOne == Block(<<MultiAssignN(<<"p", "q">>, CallN("one", <<>>))>>)

\* [p, q] = two();
ProgMultiTwo == Block(<<MultiAssignN(<<"p", "q">>, CallN("two", <<>>))>>)

\* v = bad();
ProgError == Block(<<AssignN(Id("v"), CallN("bad", <<>>))>>)

\* try, v = rec(0); catch e, c = 2; end
ProgTryRecurse ==
    Block(<<TryN(<<AssignN(Id("v"), CallN("rec", <<Num(0)>>))>>, "e",
                 <<AssignN(Id("c"), Num(2))>>)>>)

\* for k = 1:3, try, t = k; break; catch e, c = 1; end, end
ProgTryBreak ==
    Block(<<ForN("k", RangeN(Num(1), Num(3)),
              <<TryN(<<AssignN(Id("t"), Id("k")), BreakN>>, "e",
                     <<AssignN(Id("c"), Num(1))>>)>>)>>)

\* v = early();
ProgTryReturn == Block(<<AssignN(Id("v"), CallN("early", <<>>))>>)

\* n = 0; for i = 1:2, for j = 1:3, if j == 2, break; end, n = n + 1; end, end
ProgNestedBreak ==
    Block(<<AssignN(Id("n"), Num(0)),
            ForN("i", RangeN(Num(1), Num(2)),
              <<ForN("j", RangeN(Num(1), Num(3)),
                  <<IfN(BinaryNode("==", Id("j"), Num(2)), <<BreakN>>),
                    AssignN(Id("n"), BinaryNode("+", Id("n"), Num(1)))>>)>>)>>)

\* n = 0; i = 0;
\* while i < 2, i = i + 1; for j = 1:3, if j == 2, continue; end, n = n + 1; end, end
ProgNestedContinue ==
    Block(<<AssignN(Id("n"), Num(0)), AssignN(Id("i"), Num(0)),
            WhileN(BinaryNode("<", Id("i"), Num(2)),
              <<AssignN(Id("i"), BinaryNode("+", Id("i"), Num(1))),
                ForN("j", RangeN(Num(1), Num(3)),
                  <<IfN(BinaryNode("==", Id("j"), Num(2)), <<ContinueN>>),
                    AssignN(Id("n"), BinaryNode("+", Id("n"), Num(1)))>>)>>)>>)

\* n = 0; for i = 1:2, while true, n = n + 1; break; end, end
ProgWhileBreak ==
    Block(<<AssignN(Id("n"), Num(0)),
            ForN("i", RangeN(Num(1), Num(2)),
              <<WhileN(Id("true"),
                  <<AssignN(Id("n"), BinaryNode("+", Id("n"), Num(1))), BreakN>>)>>)>>)

Programs ==
    <<ProgSetA1, ProgSetA2, ProgMakeF, ProgCallF, ProgMakeG, ProgCallG, ProgRecurse,
      ProgMultiOne, ProgMultiTwo, ProgError, ProgTryRecurse, ProgTryBreak, ProgTryReturn,
      ProgNestedBreak, ProgNestedContinue, ProgWhileBreak>>

\* The function file loaded into the engine before the programs run:
\*   function h = mk(), b = 1; h = @() a + b; b = 2; end
\*   function r = rec(n), r = rec(n + 1); end
\*   function r = one(), r = 1; end
\*   function [x, y] = two(), x = 1; y = 2; return; x = 3; end
\*   function r = bad(), r = 1; error('boom'); end
\*   function r = early(), r = 1; try, return; catch e, r = 2; end, r = 3; end
Library ==
    Block(<<FunctionDefN("mk", <<>>, <<"h">>,
              <<AssignN(Id("b"), Num(1)),
                AssignN(Id("h"), AnonFuncN(<<>>, BinaryNode("+", Id("a"), Id("b")))),
                AssignN(Id("b"), Num(2))>>),
            FunctionDefN("rec", <<"n">>, <<"r">>,
              <<AssignN(Id("r"), CallN("rec", <<BinaryNode("+", Id("n"), Num(1))>>))>>),
            FunctionDefN("one", <<>>, <<"r">>, <<AssignN(Id("r"), Num(1))>>),
            FunctionDefN("two", <<>>, <<"x", "y">>,
              <<AssignN(Id("x"), Num(1)), AssignN(Id("y"), Num(2)), ReturnN,
                AssignN(Id("x"), Num(3))>>),
            FunctionDefN("bad", <<>>, <<"r">>,
              <<AssignN(Id("r"), Num(1)), ExprStmtN(CallN("error", <<StrN("boom")>>))>>),
            FunctionDefN("early", <<>>, <<"r">>,
              <<AssignN(Id("r"), Num(1)),
                TryN(<<ReturnN>>, "e", <<AssignN(Id("r"), Num(2))>>),
                AssignN(Id("r"), Num(3))>>)>>)

\* The index of a program in Programs.
ProgramId(p) == CHOOSE k \in 1..Len(Programs) : Programs[k] = p

\* The engine state as the record the evaluator works on.
EngineState ==
    [globalEnv |-> globalEnv_, store |-> globalStore_, userFuncs |-> userFuncs_,
     depth |-> currentRecursionDepth_, maxDepth |-> maxRecursionDepth_,
     anonCounter |-> anonCounter_, site |-> anonSite, out |-> <<>>]

\* Engine::Engine : the root scope holds the constants.  The values of pi,
\* eps, inf and nan are no integers and the imaginary unit is no real: each
\* is a 1 x 1 array whose element is a symbol.
RootConstants ==
    [n \in {"pi", "eps", "inf", "Inf", "nan", "NaN", "true", "false", "i", "j"} |->
        CASE n \in {"true", "false"} -> logicalScalar(n = "true")
          [] n \in {"i", "j"} -> MV("COMPLEX", 1, 1, <<"1i">>)
          [] n \in {"inf", "Inf"} -> MV("DOUBLE", 1, 1, <<"inf">>)
          [] n \in {"nan", "NaN"} -> MV("DOUBLE", 1, 1, <<"nan">>)
          [] OTHER -> MV("DOUBLE", 1, 1, <<n>>)]

\* The engine after construction; the recursion limit is then set with
\* setMaxRecursionDepth.
EngineInit ==
    /\ globalEnv_ = Scope(RootConstants, {})
    /\ globalStore_ = NoVars
    /\ userFuncs_ = NoVars
    /\ currentRecursionDepth_ = 0
    /\ maxRecursionDepth_ \in 1..MaxDepth
    /\ anonCounter_ = 0
    /\ anonSite = NoVars
    /\ evalCount = 0
    /\ lastProgram = 0
    /\ lastStatus = "none"
    /\ lastValue = empty
    /\ output = <<>>

ParserIdle ==
    /\ src_ = <<>>
    /\ tokens_ = <<EOFTok>>
    /\ ast = NullNode
    /\ parseStatus = "none"

\* The engine variables after an evaluation that ended with result r.
EngineUpdate(r) ==
    /\ globalEnv_' = r.st.globalEnv
    /\ globalStore_' = r.st.store
    /\ userFuncs_' = r.st.userFuncs
    /\ currentRecursionDepth_' = r.st.depth
    /\ maxRecursionDepth_' = r.st.maxDepth
    /\ anonCounter_' = r.st.anonCounter
    /\ anonSite' = r.st.site
    /\ lastStatus' = r.sig
    /\ lastValue' = r.val
    /\ output' = r.st.out

\* Engine::eval on program p: execNode(ast, globalEnv_).
Eval(p) ==
    /\ evalCount < MaxEvals
    /\ EngineUpdate(execNode(Programs[p], <<>>, EngineState))
    /\ evalCount' = evalCount + 1
    /\ lastProgram' = p
    /\ UNCHANGED <<parserVars, valueVars>>

\* Engine::eval on the function file, once: it defines the user functions.
Load ==
    /\ userFuncs_ = NoVars
    /\ EngineUpdate(execNode(Library, <<>>, EngineState))
    /\ lastProgram' = 0
    /\ UNCHANGED <<evalCount, parserVars, valueVars>>

Init ==
    /\ EngineInit
    /\ ParserIdle
    /\ ValueIdle

Next ==
    \/ Load
    \/ \E p \in 1..Len(Programs) : Eval(p)

Spec == Init /\ [][Next]_vars

(***************************************************************************)
(* The parser as a state machine: a token vector, as the lexer produces it *)
(* for a line of source text, is parsed, and the tree is then executed on  *)
(* a fresh engine (Engine::eval).                                          *)
(***************************************************************************)
\* The largest number of logical operators in an expression input.
MaxOps == 4

\* The tokens of the four logical operators.
LogicalOpToks ==
    {Tok("OR_SHORT", "||"), Tok("AND_SHORT", "&&"), Tok("OR", "|"), Tok("AND", "&")}

\* The operands of an expression input, by position: a, b, c, ...
OperandNames == <<"a", "b", "c", "d", "e", "f", "g", "h">>

IdTok(s) == Tok("IDENTIFIER", s)

\* "a op1 b op2 c ..." for a sequence ops of operator tokens.
RECURSIVE ExprToks(_, _)
ExprToks(ops, k) ==
    IF k > Len(ops) THEN <<>>
    ELSE <<ops[k], IdTok(OperandNames[k + 1])>> \o ExprToks(ops, k + 1)

ExprInputs ==
    {<<IdTok("a")>> \o ExprToks(ops, 1) \o <<EOFTok>> :
        ops \in UNION {[1..n -> LogicalOpToks] : n \in 1..MaxOps}}

\* The simple statements of a statement input:
\*   x = 1      y = 2      x = []      A(1) = []      x      [p, q] = f(1)
SimpleStmts ==
    {<<IdTok("x"), Tok("ASSIGN", "="), Tok("NUMBER", "1")>>,
     <<IdTok("y"), Tok("ASSIGN", "="), Tok("NUMBER", "2")>>,
     <<IdTok("x"), Tok("ASSIGN", "="), Tok("LBRACKET", "["), Tok("RBRACKET", "]")>>,
     <<IdTok("A"), Tok("LPAREN", "("), Tok("NUMBER", "1"), Tok("RPAREN", ")"),
       Tok("ASSIGN", "="), Tok("LBRACKET", "["), Tok("RBRACKET", "]")>>,
     <<IdTok("x")>>,
     <<Tok("LBRACKET", "["), IdTok("p"), Tok("COMMA", ","), IdTok("q"),
       Tok("RBRACKET", "]"), Tok("ASSIGN", "="), IdTok("f"), Tok("LPAREN", "("),
       Tok("NUMBER", "1"), Tok("RPAREN", ")")>>}

\* What separates or ends statements on a line: ';', ',' or a newline.
Separators == {Tok("SEMICOLON", ";"), Tok("COMMA", ","), Tok("NEWLINE", "\n")}

\* One statement, bare or followed by a separator, or two statements with a
\* separator between them.
StmtInputs ==
    {s \o <<EOFTok>> : s \in SimpleStmts}
    \cup {s \o <<t, EOFTok>> : s \in SimpleStmts, t \in Separators}
    \cup {s1 \o <<t>> \o s2 \o <<EOFTok>> : s1 \in SimpleStmts, t \in Separators,
                                            s2 \in SimpleStmts}

InitParse ==
    /\ src_ = <<>>
    /\ tokens_ \in ExprInputs \cup StmtInputs
    /\ ast = NullNode
    /\ parseStatus = "none"
    /\ EngineInit
    /\ maxRecursionDepth_ = MaxDepth
    /\ ValueIdle

\* Parser::parse on tokens_ (the first half of Engine::eval).
Parse ==
    /\ parseStatus = "none"
    /\ LET r == parse(tokens_)
       IN /\ parseStatus' = IF r.ok THEN "ok" ELSE "error"
          /\ ast' = r.node
    /\ UNCHANGED <<src_, tokens_, engineVars, valueVars>>

\* execNode(ast, globalEnv_) (the second half of Engine::eval).
Run ==
    /\ parseStatus = "ok"
    /\ evalCount = 0
    /\ EngineUpdate(execNode(ast, <<>>, EngineState))
    /\ evalCount' = 1
    /\ lastProgram' = 0
    /\ UNCHANGED <<parserVars, valueVars>>

NextParse == Parse \/ Run

SpecParse == InitParse /\ [][NextParse]_vars

(***************************************************************************)
(* Properties of the parser (specification SpecParse).                     *)
(***************************************************************************)
\* The binding strength the language gives the logical operators, from the
\* weakest: || , && , | , & .
LogicalLevel(op) ==
    CASE op = "||" -> 1
      [] op = "&&" -> 2
      [] op = "|" -> 3
      [] op = "&" -> 4
      [] OTHER -> 5

IsLogicalNode(n) == n.type = "BINARY_OP" /\ n.strValue \in {"||", "&&", "|", "&"}

\* A tree of logical operators over plain operands is grouped by four levels
\* (left-associative within a level) when, at every operator node, the left
\* operand is no operator of a weaker level and the right operand is an
\* operator of a strictly stronger level or a plain operand.
RECURSIVE GroupedByLevel(_)
GroupedByLevel(n) ==
    IF ~IsLogicalNode(n) THEN TRUE
    ELSE LET l == n.children[1]
             r == n.children[2]
         IN /\ IsLogicalNode(l) => LogicalLevel(l.strValue) >= LogicalLevel(n.strValue)
            /\ IsLogicalNode(r) => LogicalLevel(r.strValue) > LogicalLevel(n.strValue)
            /\ GroupedByLevel(l)
            /\ GroupedByLevel(r)

\* C8: the parse of an unparenthesised expression of logical operators
\* groups it by four distinct precedence levels, || < && < | < & : in the
\* tree every operator's left operand is of the same or a higher level and
\* its right operand of a strictly higher level (so a && b | c is
\* a && (b | c), and a || b && c | d & e is a || (b && (c | (d & e)))).
C8_FourLogicalLevels ==
    (tokens_ \in ExprInputs /\ parseStatus # "none")
        => /\ parseStatus = "ok"
           /\ Len(ast.children) = 1
           /\ ast.children[1].type = "EXPR_STMT"
           /\ GroupedByLevel(ast.children[1].children[1])

\* The token vectors "s1 , s2" of two simple statements separated by a comma.
CommaPairs ==
    {s1 \o <<Tok("COMMA", ",")>> \o s2 \o <<EOFTok>> : s1 \in SimpleStmts, s2 \in SimpleStmts}

\* C9: two simple statements on one line separated by ',' parse as two
\* statements, and the first (the one followed by the comma) has its
\* suppress-output flag clear.
C9_CommaSeparates ==
    (tokens_ \in CommaPairs /\ parseStatus # "none")
        => /\ parseStatus = "ok"
           /\ Len(ast.children) = 2
           /\ ~ast.children[1].suppressOutput

\* The token vectors that are the one statement "x = []", bare or followed by
\* a separator.
BareEmptyAssigns ==
    LET s == <<IdTok("x"), Tok("ASSIGN", "="), Tok("LBRACKET", "["), Tok("RBRACKET", "]")>>
    IN {s \o <<EOFTok>>} \cup {s \o <<t, EOFTok>> : t \in Separators \ {Tok("COMMA", ",")}}

\* C3: "x = []" with a bare identifier on the left parses to an ASSIGN node
\* (only an indexed left-hand side gives a DELETE_ASSIGN node), and executing
\* it raises no error and binds x to the empty matrix.
C3_BareEmptyIsAssign ==
    /\ (tokens_ \in BareEmptyAssigns /\ parseStatus # "none")
          => /\ parseStatus = "ok"
             /\ Len(ast.children) = 1
             /\ ast.children[1].type = "ASSIGN"
             /\ evalCount = 1 => /\ lastStatus = "ok"
                                 /\ "x" \in DOMAIN globalEnv_.vars
                                 /\ globalEnv_.vars["x"] = empty
    /\ parseStatus = "ok"
          => \A k \in 1..Len(ast.children) :
                ast.children[k].type = "DELETE_ASSIGN"
                    => ast.children[k].children[1].type = "CALL"

(***************************************************************************)
(* Properties of the engine.                                               *)
(***************************************************************************)
\* C1: when a user-function call has finished, normally or by an error (the
\* depth error included), the recursion counter is back at the value it had
\* before the call: it is zero whenever eval has returned or raised, and a
\* call made from the state eval left gives the counter back as it found it.
C1_DepthRestored ==
    /\ currentRecursionDepth_ = 0
    /\ \A f \in DOMAIN userFuncs_ :
         callUserFunctionMulti(userFuncs_[f], <<scalar(0)>>, <<>>, 1, EngineState).st.depth
             = currentRecursionDepth_

\* The anonymous functions created so far.
Closures == {f \in DOMAIN userFuncs_ : userFuncs_[f].closureEnv # <<>>}

\* The value name has for the body of anonymous function f: Environment::get
\* on a local environment whose parent is the closure snapshot.
FreeValue(f, name) == Environment_get(EngineState, userFuncs_[f].closureEnv, name)

\* The names a program may use as variables.
VarNames == {"a", "b", "f", "g", "r", "v", "p", "q", "c", "t", "k", "n", "i", "j"}

\* C4: once an anonymous function exists, no later assignment to a variable
\* of the scope that created it changes what its free variables resolve to,
\* a name unbound at creation included.  For a function created at top level
\* the creating scope is the root, its later assignments are the evals.
C4_LaterAssignmentInvisible ==
    [][\A f \in Closures : \A name \in VarNames :
          anonSite[f].top => FreeValue(f, name)' = FreeValue(f, name)]_vars

RootHas(name, v) == name \in DOMAIN globalEnv_.vars /\ globalEnv_.vars[name] = v

RootBinds(name) == name \in DOMAIN globalEnv_.vars

\* try, t = 1; <signal>; catch e, c = 1; end   for each of the three signals.
TrySignalNodes ==
    {TryN(<<AssignN(Id("t"), Num(1)), s>>, "e", <<AssignN(Id("c"), Num(1))>>) :
        s \in {BreakN, ContinueN, ReturnN}}

\* C6: a break, continue or return executed in the body of a try is not
\* handled by the try: the result of the try statement is the result of its
\* body (the catch block has not run, no error struct is bound), and the
\* signal reaches the enclosing loop, which ends at its first pass, or the
\* enclosing call, which returns the value set before the try.
C6_TryPassesSignals ==
    /\ \A node \in TrySignalNodes :
          LET b == execNode(node.children[1], <<>>, EngineState)
              r == execTryCatch(node, <<>>, EngineState)
          IN /\ b.sig \in {"break", "continue", "return"}
             /\ r = b
             /\ Environment_get(r.st, r.env, "e") = Environment_get(EngineState, <<>>, "e")
             /\ Environment_get(r.st, r.env, "c") = Environment_get(EngineState, <<>>, "c")
    /\ lastProgram = ProgramId(ProgTryBreak) =>
          /\ lastStatus = "ok"
          /\ RootHas("k", scalar(1))
          /\ RootHas("t", scalar(1))
          /\ ~RootHas("c", scalar(1))
    /\ (lastProgram = ProgramId(ProgTryReturn) /\ lastStatus = "ok") =>
          RootHas("v", scalar(1))

\* The loop with a break in a try has run, and so has, before it, a try whose
\* body raised an error: that one ran its catch block.
C6_Witness ==
    /\ lastProgram = ProgramId(ProgTryBreak)
    /\ RootHas("k", scalar(1))
    /\ RootHas("c", scalar(2))
    /\ RootBinds("e")

\* C7: a break or continue in a loop nested in another loop is consumed by
\* the inner loop only: break ends that loop, continue goes to its next
\* pass, and the outer loop makes all of its passes.  The nested loops end
\* normally with the counts of the passes made.
C7_InnermostLoopConsumes ==
    /\ lastProgram = ProgramId(ProgNestedBreak) =>
          /\ lastStatus = "ok"
          /\ RootHas("n", scalar(2)) /\ RootHas("i", scalar(2)) /\ RootHas("j", scalar(2))
    /\ lastProgram = ProgramId(ProgNestedContinue) =>
          /\ lastStatus = "ok"
          /\ RootHas("n", scalar(4)) /\ RootHas("i", scalar(2)) /\ RootHas("j", scalar(3))
    /\ lastProgram = ProgramId(ProgWhileBreak) =>
          /\ lastStatus = "ok"
          /\ RootHas("n", scalar(2)) /\ RootHas("i", scalar(2))

\* The nested for loops with a break in the inner one have run.
C7_Witness ==
    /\ lastProgram = ProgramId(ProgNestedBreak)
    /\ RootHas("n", scalar(2))
    /\ RootHas("j", scalar(2))

\* C10: after [p, q] = one(), where one yields one result for the two names,
\* q is bound to the empty value.
C10_MissingResultsEmpty ==
    (lastProgram = ProgramId(ProgMultiOne) /\ lastStatus = "ok") =>
        /\ RootHas("p", scalar(1))
        /\ RootHas("q", empty)

(***************************************************************************)
(* The value layer: MValue objects and the DataBuffers they share.  An     *)
(* object is the record                                                    *)
(*   [type, rows, cols, buffer, cellData, structData]                      *)
(* of MValue::type_, dims_, buffer_ (a heap address, NoBuffer for nullptr),*)
(* cellData_ (a sequence of objects) and structData_ (field -> object).    *)
(* The heap maps the address of each live DataBuffer to its refCount_ and  *)
(* the elements in data_.  Every operator takes the heap and gives the     *)
(* heap it leaves.                                                         *)
(***************************************************************************)
NoBuffer == 0

NoFields == <<>>

Header(type, rows, cols, buffer) ==
    [type |-> type, rows |-> rows, cols |-> cols, buffer |-> buffer,
     cellData |-> <<>>, structData |-> NoFields]

\* MValue::MValue() : EMPTY, 0 x 0, no buffer.
MValue_empty == Header("EMPTY", 0, 0, NoBuffer)

\* The pair (object, heap) an operation on an object leaves.
VH(val, heap) == [val |-> val, heap |-> heap]

\* new DataBuffer : refCount_ 1, at an address not in use (the lowest; the
\* allocator may give out again the address of a deleted buffer).
newAddress(heap) ==
    CHOOSE b \in 1..(Cardinality(DOMAIN heap) + 1) :
        b \notin DOMAIN heap /\ \A c \in 1..(b - 1) : c \in DOMAIN heap

DataBuffer(heap, data) == (newAddress(heap) :> [refCount |-> 1, data |-> data]) @@ heap

\* DataBuffer::addRef through a buffer_ pointer.
addRef(heap, b) ==
    IF b = NoBuffer \/ b \notin DOMAIN heap THEN heap
    ELSE [heap EXCEPT ![b].refCount = @ + 1]

\* MValue::releaseBuffer : release() and delete at the last reference.
releaseBuffer(heap, b) ==
    IF b = NoBuffer \/ b \notin DOMAIN heap THEN heap
    ELSE IF heap[b].refCount = 1 THEN [c \in (DOMAIN heap) \ {b} |-> heap[c]]
    ELSE [heap EXCEPT ![b].refCount = @ - 1]

\* The field names of a struct, in the order of the std::map.
fieldList(m) ==
    IF "f" \in DOMAIN m THEN <<"f">> ELSE <<>>

\* The buffer_ pointers an object and the objects it contains hold.
ownBuffers(val) ==
    <<val.buffer>> \o [i \in 1..Len(val.cellData) |-> val.cellData[i].buffer]
                   \o [i \in 1..Len(fieldList(val.structData)) |->
                          val.structData[fieldList(val.structData)[i]].buffer]

RECURSIVE addRefs(_, _, _)
addRefs(heap, bs, k) ==
    IF k > Len(bs) THEN heap ELSE addRefs(addRef(heap, bs[k]), bs, k + 1)

RECURSIVE releaseBuffers(_, _, _)
releaseBuffers(heap, bs, k) ==
    IF k > Len(bs) THEN heap ELSE releaseBuffers(releaseBuffer(heap, bs[k]), bs, k + 1)

\* MValue::MValue(const MValue &) : the members are copied, cellData_ and
\* structData_ element by element, and every buffer copied gets a reference.
MValue_copy(heap, val) == addRefs(heap, ownBuffers(val), 1)

\* MValue::~MValue
MValue_destroy(heap, val) == releaseBuffers(heap, ownBuffers(val), 1)

\* MValue::operator=(const MValue &) on object old: tmp(other); swap(tmp);
\* tmp, now the old members, is destroyed.
MValue_assign(heap, old, other) == MValue_destroy(MValue_copy(heap, other), old)

\* A detach that leaves a shared buffer shared.
detachNever(val, heap) == VH(val, heap)

\* MValue::detach
MValue_detach(val, heap) ==
    IF val.buffer = NoBuffer \/ val.buffer \notin DOMAIN heap THEN VH(val, heap)
    ELSE IF heap[val.buffer].refCount <= 1 THEN VH(val, heap)
    ELSE LET newBuf == newAddress(heap)
             h1 == DataBuffer(heap, heap[val.buffer].data)
         IN VH([val EXCEPT !.buffer = newBuf], releaseBuffer(h1, val.buffer))

\* elementSize(type) > 0
hasElements(type) == type \in {"DOUBLE", "LOGICAL", "CHAR"}

\* MValue::resize(newRows = 1, newCols) : a zeroed buffer of the new size,
\* the old elements copied into it, the old buffer released.
MValue_resize(val, newCols, heap) ==
    LET old == IF val.buffer = NoBuffer \/ val.buffer \notin DOMAIN heap THEN <<>>
               ELSE heap[val.buffer].data
        keep == IF val.cols < newCols THEN val.cols ELSE newCols
        data == IF hasElements(val.type)
                THEN [i \in 1..newCols |-> IF i <= keep /\ i <= Len(old) THEN old[i] ELSE 0]
                ELSE <<>>
        newBuf == newAddress(heap)
        h1 == DataBuffer(heap, data)
    IN VH([val EXCEPT !.buffer = newBuf, !.rows = 1, !.cols = newCols],
          releaseBuffer(h1, val.buffer))

\* MValue::ensureSize(linearIdx) on an object of at most one row.
MValue_ensureSize(val, linearIdx, heap) ==
    LET first == IF val.type = "EMPTY"
                 THEN VH(Header("DOUBLE", 1, 1, newAddress(heap)), DataBuffer(heap, <<0>>))
                 ELSE VH(val, heap)
        needed == linearIdx + 1
    IN IF needed > first.val.rows * first.val.cols
       THEN MValue_resize(first.val, needed, first.heap)
       ELSE first

\* MValue::doubleDataMut followed by data[linearIdx] = sv, for an object of
\* type DOUBLE with linearIdx < numel.
MValue_write(val, linearIdx, sv, heap) ==
    LET d == MValue_detach(val, heap)
    IN VH(d.val, [d.heap EXCEPT ![d.val.buffer].data[linearIdx + 1] = sv])

\* What a statement leaves: the variables and the heap.
VS(vs, heap) == [vars |-> vs, heap |-> heap]

\* The object bound to a name, a default-constructed one when std::map
\* creates the entry.
Bound(vs, name) == IF name \in DOMAIN vs THEN vs[name] ELSE MValue_empty

\* Environment::set(name, MValue val) with a copy of rhs for val:
\* vars_[name] = std::move(val).
Environment_setValue(vs, heap, name, rhs) ==
    VS(VarSet(vs, name, rhs), MValue_assign(heap, Bound(vs, name), rhs))

\* MValue::scalar(sv) : a 1 x 1 DOUBLE in a buffer of its own.
MValue_scalar(heap, sv) == VH(Header("DOUBLE", 1, 1, newAddress(heap)), DataBuffer(heap, <<sv>>))

\* Engine::execMatrixLiteral for [1 2] : a 1 x 2 DOUBLE in a buffer of its own.
MValue_rowLiteral(heap) ==
    VH(Header("DOUBLE", 1, 2, newAddress(heap)), DataBuffer(heap, <<1, 2>>))

\* Engine::execCellLiteral for {[1 2]} : a 1 x 1 cell whose element holds
\* the only reference to its buffer.
MValue_cellLiteral(heap) ==
    LET e == MValue_rowLiteral(heap)
    IN VH([Header("CELL", 1, 1, NoBuffer) EXCEPT !.cellData = <<e.val>>], e.heap)

\* Engine::execAssign, identifier on the left: name = rhs, where rhs is the
\* temporary the right-hand side gave, destroyed when the statement ends.
assignTemporary(vs, name, rhs) ==
    LET s == Environment_setValue(vs, rhs.heap, name, rhs.val)
    IN VS(s.vars, MValue_destroy(s.heap, rhs.val))

\* Engine::execIdentifier : return *val, a copy of the object.
readVariable(vs, heap, name) == VH(vs[name], MValue_copy(heap, vs[name]))

\* Engine::execIndexedAssign with one subscript and a scalar right-hand
\* side, on object val: ensureSize, then doubleDataMut (which throws for an
\* object that is no DOUBLE, after ensureSize has run) and the write.
indexedAssignOn(val, index, sv, heap) ==
    LET rhs == MValue_scalar(heap, sv)
        e == MValue_ensureSize(val, index - 1, rhs.heap)
        w == IF e.val.type = "DOUBLE" THEN MValue_write(e.val, index - 1, sv, e.heap) ELSE e
    IN VH(w.val, MValue_destroy(w.heap, rhs.val))

\* Engine::execIndexedAssign : name(index) = sv; an unbound name is first
\* set to the empty value.
execIndexedAssignValue(vs, heap, name, index, sv) ==
    LET w == indexedAssignOn(Bound(vs, name), index, sv, heap)
    IN VS(VarSet(vs, name, w.val), w.heap)

\* Engine::execFieldAssign : name.f = sv.  resolveFieldLValue makes the
\* variable a struct if it is none, and structData_["f"] an EMPTY object if
\* the field is new; then the field is assigned.
execFieldAssignValue(vs, heap, name, sv) ==
    LET rhs == MValue_scalar(heap, sv)
        old == Bound(vs, name)
        struct == [Header("STRUCT", 1, 1, NoBuffer) EXCEPT !.structData = NoFields]
        h1 == IF old.type = "STRUCT" THEN rhs.heap ELSE MValue_assign(rhs.heap, old, struct)
        var == IF old.type = "STRUCT" THEN old ELSE struct
        oldField == IF "f" \in DOMAIN var.structData THEN var.structData["f"] ELSE MValue_empty
        h2 == MValue_assign(h1, oldField, rhs.val)
    IN VS(VarSet(vs, name, [var EXCEPT !.structData = ("f" :> rhs.val) @@ @]),
          MValue_destroy(h2, rhs.val))

\* Engine::execCellAssign : name{index} = sv; it throws for an unbound name,
\* for a variable that is no cell and (MValue::cellAt) for an index out of
\* bounds.
execCellAssignValue(vs, heap, name, index, sv) ==
    LET rhs == MValue_scalar(heap, sv)
        var == Bound(vs, name)
        ok == name \in DOMAIN vs /\ var.type = "CELL" /\ index <= Len(var.cellData)
        h1 == IF ok THEN MValue_assign(rhs.heap, var.cellData[index], rhs.val) ELSE rhs.heap
    IN VS(IF ok THEN VarSet(vs, name, [var EXCEPT !.cellData[index] = rhs.val]) ELSE vs,
          MValue_destroy(h1, rhs.val))

\* The elements of data but the one at position index.
withoutElement(data, index) ==
    [i \in 1..(Len(data) - 1) |-> IF i < index THEN data[i] ELSE data[i + 1]]

\* Engine::execDeleteAssign with one subscript : name(index) = [].  For a
\* DOUBLE the remaining elements go to a new matrix, which is assigned to
\* the variable; for another type nothing is done.
execDeleteAssignValue(vs, heap, name, index) ==
    LET var == vs[name]
        data == IF var.buffer = NoBuffer THEN <<>> ELSE heap[var.buffer].data
        remaining == IF index <= Len(data) THEN withoutElement(data, index) ELSE data
        result == IF remaining = <<>> THEN VH(Header("DOUBLE", 1, 0, NoBuffer), heap)
                  ELSE VH(Header("DOUBLE", 1, Len(remaining), newAddress(heap)),
                          DataBuffer(heap, remaining))
    IN IF var.type # "DOUBLE" THEN VS(vs, heap)
       ELSE VS(VarSet(vs, name, result.val),
               MValue_destroy(MValue_assign(result.heap, var, result.val), result.val))

\* target = g(arg) for   function r = g(w), w(index) = sv; r = w; end :
\* Engine::callUserFunctionMulti binds w to a copy of the argument, the body
\* writes to w, the result is a copy of w, and the local environment and
\* the argument vector are destroyed before the result is assigned.
callWithArgument(vs, heap, target, arg, index, sv) ==
    LET args == readVariable(vs, heap, arg)
        h2 == MValue_copy(args.heap, args.val)
        w == indexedAssignOn(args.val, index, sv, h2)
        h3 == MValue_copy(w.heap, w.val)
        h4 == MValue_destroy(h3, w.val)
        h5 == MValue_destroy(h4, args.val)
    IN IF w.val.type # "DOUBLE"
       THEN VS(vs, MValue_destroy(MValue_destroy(w.heap, w.val), args.val))
       ELSE assignTemporary(vs, target, VH(w.val, h5))

(***************************************************************************)
(* The value layer as a state machine: statements executed one after       *)
(* another on the variables of one scope.                                  *)
(***************************************************************************)
\* The largest subscript of a statement.
MaxIndex == 2

ValueNames == {"v", "w"}

\* The scalars the statements write.
ScalarInputs == {9}

\* The live buffers an object points to.
pointsTo(val) == {ownBuffers(val)[i] : i \in 1..Len(ownBuffers(val))} \ {NoBuffer}

\* Whether variable name shares a buffer with another variable.
Shares(name) ==
    /\ name \in DOMAIN vars_
    /\ \E other \in (DOMAIN vars_) \ {name} :
          pointsTo(vars_[name]) \cap pointsTo(vars_[other]) # {}

\* The variables and the heap after a statement on target that left s;
\* mutation tells an assignment of a new value from a change of the value
\* the target had, shared whether the target shared a buffer before it.
ValueUpdate(s, mutation, target, shared) ==
    /\ vars_' = s.vars
    /\ buffers' = s.heap
    /\ lastOp' = [target |-> target, mutation |-> mutation, shared |-> shared]
    /\ UNCHANGED <<parserVars, engineVars>>

\* name = [1 2]
AssignLiteral(name) ==
    ValueUpdate(assignTemporary(vars_, name, MValue_rowLiteral(buffers)),
                FALSE, name, Shares(name))

\* name = {[1 2]}
AssignCellLiteral(name) ==
    ValueUpdate(assignTemporary(vars_, name, MValue_cellLiteral(buffers)),
                FALSE, name, Shares(name))

\* name = source
AssignVariable(name, source) ==
    /\ source \in DOMAIN vars_
    /\ ValueUpdate(assignTemporary(vars_, name, readVariable(vars_, buffers, source)),
                   FALSE, name, Shares(name))

\* name(index) = sv, for a name that is unbound or bound to a numeric array
\* (for a cell or a struct the statement throws)
IndexedAssign(name, index, sv) ==
    /\ Bound(vars_, name).type \in {"EMPTY", "DOUBLE"}
    /\ ValueUpdate(execIndexedAssignValue(vars_, buffers, name, index, sv),
                   TRUE, name, Shares(name))

\* name.f = sv
FieldAssign(name, sv) ==
    ValueUpdate(execFieldAssignValue(vars_, buffers, name, sv), TRUE, name, Shares(name))

\* name{index} = sv
CellAssign(name, index, sv) ==
    ValueUpdate(execCellAssignValue(vars_, buffers, name, index, sv),
                TRUE, name, Shares(name))

\* name(index) = []
DeleteAssign(name, index) ==
    /\ name \in DOMAIN vars_
    /\ ValueUpdate(execDeleteAssignValue(vars_, buffers, name, index),
                   TRUE, name, Shares(name))

\* name = g(source), where g writes sv to element index of its parameter
CallWithArgument(name, source, index, sv) ==
    /\ source \in DOMAIN vars_
    /\ ValueUpdate(callWithArgument(vars_, buffers, name, source, index, sv),
                   TRUE, name, TRUE)

InitValue ==
    /\ ValueIdle
    /\ EngineInit
    /\ maxRecursionDepth_ = MaxDepth
    /\ ParserIdle

NextValue ==
    \E name \in ValueNames :
        \/ AssignLiteral(name)
        \/ AssignCellLiteral(name)
        \/ \E source \in ValueNames : AssignVariable(name, source)
        \/ \E index \in 1..MaxIndex, sv \in ScalarInputs : IndexedAssign(name, index, sv)
        \/ \E sv \in ScalarInputs : FieldAssign(name, sv)
        \/ \E index \in 1..MaxIndex, sv \in ScalarInputs : CellAssign(name, index, sv)
        \/ \E index \in 1..MaxIndex : DeleteAssign(name, index)
        \/ \E source \in ValueNames, index \in 1..MaxIndex, sv \in ScalarInputs :
              CallWithArgument(name, source, index, sv)

SpecValue == InitValue /\ [][NextValue]_vars

(***************************************************************************)
(* Properties of the value layer (specification SpecValue).                *)
(***************************************************************************)
\* The elements a buffer_ pointer gives.
Elements(b) ==
    IF b = NoBuffer THEN <<>>
    ELSE IF b \in DOMAIN buffers THEN buffers[b].data
    ELSE <<"freed">>

\* The kind, the shape and the elements of an object that contains no other.
Plain(val) ==
    [type |-> val.type, rows |-> val.rows, cols |-> val.cols, data |-> Elements(val.buffer)]

\* The kind, the shape and every element of the value of a variable, the
\* elements of a cell and the fields of a struct included.
Contents(name) ==
    LET val == vars_[name]
    IN [type |-> val.type, rows |-> val.rows, cols |-> val.cols,
        data |-> Elements(val.buffer),
        cell |-> [i \in 1..Len(val.cellData) |-> Plain(val.cellData[i])],
        fields |-> [f \in DOMAIN val.structData |-> Plain(val.structData[f])]]

\* C2: a statement that assigns to, or changes, one variable (an element
\* write, a growth by a write past the end, a field or cell-element
\* assignment, a deletion, a call that got the variable's value as an
\* argument) leaves the kind, the shape and every element of every other
\* variable as they were, whatever buffers the variables shared after
\* w = v.
C2_CopyOnWrite ==
    [][\A name \in DOMAIN vars_ :
          name # lastOp'.target =>
              /\ name \in DOMAIN vars_'
              /\ Contents(name)' = Contents(name)]_vars

\* w and v shared a buffer (after w = v) when an element of w was written:
\* w has the element written, v still has [1 2].
C2_Witness ==
    /\ lastOp = [target |-> "w", mutation |-> TRUE, shared |-> TRUE]
    /\ "v" \in DOMAIN vars_
    /\ Contents("v").data = <<1, 2>>
    /\ Contents("w").data = <<9, 2>>

(***************************************************************************)
(* Arrays as a state machine: Engine::eval called on one statement at a    *)
(* time (given as the tree the parser builds for it, kept in ast), on an   *)
(* engine that starts as constructed.  The statements create a matrix A    *)
(* or a cell c and then index, grow, shrink or test it.                    *)
(***************************************************************************)
\* The number of statements evaluated on one engine.
MaxArrayEvals == 2

\* Parser::parseArrayLiteral : [ r11 r12 ; r21 r22 ] of number literals, one
\* BLOCK per row.
MatrixN(rows) ==
    [makeNode("MATRIX_LITERAL") EXCEPT
       !.children = [i \in 1..Len(rows) |->
                       Block([j \in 1..Len(rows[i]) |-> Num(rows[i][j])])]]

\* Parser::parseArrayLiteral : []
EmptyMatrixN == makeNode("MATRIX_LITERAL")

\* Parser::parsePrimary : a bare ':' as a subscript
ColonAllN == makeNode("COLON_EXPR")

\* Parser::parseExpressionStatement : name(subs) = [] ;
DeleteN(name, subs) ==
    [makeNode("DELETE_ASSIGN") EXCEPT !.children = <<CallN(name, subs)>>,
                                      !.suppressOutput = TRUE]

\* The matrix literals of the statements "A = [...]": a row, a column, a
\* square and a scalar, given by their rows.
ArrayLiterals ==
    { << <<1, 2, 3>> >>, << <<1>>, <<2>>, <<3>> >>, << <<1, 2>>, <<3, 4>> >>, << <<5>> >> }

\* The scalar subscripts of the statements.
ScalarSubs == {1, 2, 4, 6}

\* The subscripts of the statements: the scalars, [1 3], ':' and [].
IndexExprs ==
    {Num(k) : k \in ScalarSubs} \cup {MatrixN(<< <<1, 3>> >>), ColonAllN, EmptyMatrixN}

\* The right-hand sides of the indexed assignments: 9, [7 8] and [7 8 9].
RhsExprs == {Num(9), MatrixN(<< <<7, 8>> >>), MatrixN(<< <<7, 8, 9>> >>)}

\* Parser::parseArrayLiteral between braces: { e1, e2, ... }, one BLOCK row;
\* {} has no row.
CellLiteralN(elems) ==
    [makeNode("CELL_LITERAL") EXCEPT
       !.children = IF elems = <<>> THEN <<>> ELSE <<Block(elems)>>]

\* Parser::parsePostfix : name{idx}
CellIndexN(name, idx) == [makeNode("CELL_INDEX") EXCEPT !.children = <<Id(name), idx>>]

\* The cell literals of the statements "c = {...}": {} and {1, 2, 3}.
CellLiterals == {<<>>, <<Num(1), Num(2), Num(3)>>}

\* The integer subscripts between braces.
CellSubs == {1, 3, 4}

\* for i = 1:2, c{i} = i; end
FillLoopN ==
    ForN("i", RangeN(Num(1), Num(2)), <<AssignN(CellIndexN("c", Id("i")), Id("i"))>>)

\* function r = add2(a, b), r = a + b; end
Add2DefN ==
    FunctionDefN("add2", <<"a", "b">>, <<"r">>,
                 <<AssignN(Id("r"), BinaryNode("+", Id("a"), Id("b")))>>)

\* The argument lists of the calls of add2: none, one, two (as declared),
\* three and four arguments.
Add2Args ==
    {<<>>, <<Num(1)>>, <<Num(1), Num(2)>>, <<Num(1), Num(2), Num(3)>>,
     <<Num(1), Num(2), Num(3), Num(4)>>}

\* The array conditions, each with the truth value "all elements nonzero, and
\* not empty": [1 2], [1 0], [], [1 2] > 0 and [1 0] > 0 (the last two are
\* logical arrays).
ArrayConds ==
    {[expr |-> MatrixN(<< <<1, 2>> >>), truth |-> TRUE],
     [expr |-> MatrixN(<< <<1, 0>> >>), truth |-> FALSE],
     [expr |-> EmptyMatrixN, truth |-> FALSE],
     [expr |-> BinaryNode(">", MatrixN(<< <<1, 2>> >>), Num(0)), truth |-> TRUE],
     [expr |-> BinaryNode(">", MatrixN(<< <<1, 0>> >>), Num(0)), truth |-> FALSE]}

\* if cond, t = 1; else, t = 0; end
IfCondN(cond) == IfElseN(cond, <<AssignN(Id("t"), Num(1))>>, <<AssignN(Id("t"), Num(0))>>)

\* while cond, t = 2; break; end
WhileCondN(cond) == WhileN(cond, <<AssignN(Id("t"), Num(2)), BreakN>>)

\* t = cond && 1;  t = 1 && cond;  t = cond || 0;  t = 0 || cond;
ShortCircuitN(cond) ==
    {AssignN(Id("t"), BinaryNode("&&", cond, Num(1))),
     AssignN(Id("t"), BinaryNode("&&", Num(1), cond)),
     AssignN(Id("t"), BinaryNode("||", cond, Num(0))),
     AssignN(Id("t"), BinaryNode("||", Num(0), cond))}

\* Parser::parseUnary / parsePrimary : the integer n as it is written, -2 as
\* the unary minus of 2.
SignedN(n) == IF n < 0 THEN UnaryNode("-", Num(0 - n)) ELSE Num(n)

\* Parser::parseColon : a:s:b
StepRangeN(a, step, b) ==
    [makeNode("COLON_EXPR") EXCEPT !.children = <<SignedN(a), SignedN(step), SignedN(b)>>]

\* The operands of the colon expressions: starts, steps and stops.
ColonStarts == {1, 5}
ColonSteps == {0 - 2, 1, 2, 3}
ColonStops == {1, 4, 5, 6}

\* floor(x / y) for integers x and y # 0.
FloorDiv(x, y) == IF y > 0 THEN x \div y ELSE (0 - x) \div (0 - y)

\* max(0, floor((b - a) / s) + 1)
ExpectedCount(a, step, b) == Max(0, FloorDiv(b - a, step) + 1)

\* The subscripts that are no position: 0, -1 and pi.
BadIndexExprs == {Num(0), SignedN(0 - 1), Id("pi")}

\* The subscripts between braces.
CellIndexExprs == {Num(k) : k \in CellSubs} \cup BadIndexExprs

\* Engine::eval on the statement s: execNode(ast, globalEnv_).
EvalTree(s) ==
    /\ evalCount < MaxArrayEvals
    /\ EngineUpdate(execNode(Block(<<s>>), <<>>, EngineState))
    /\ evalCount' = evalCount + 1
    /\ ast' = s
    /\ parseStatus' = "ok"
    /\ UNCHANGED <<src_, tokens_, lastProgram, valueVars>>

\* A = [...];
AssignMatrix == \E lit \in ArrayLiterals : EvalTree(AssignN(Id("A"), MatrixN(lit)))

\* A(i) = [];
DeleteElements == \E i \in IndexExprs : EvalTree(DeleteN("A", <<i>>))

\* A(i, j) = [];
DeleteRowsCols == \E i, j \in IndexExprs : EvalTree(DeleteN("A", <<i, j>>))

\* A(i) = rhs;
WriteElements ==
    \E i \in IndexExprs, rhs \in RhsExprs : EvalTree(AssignN(CallN("A", <<i>>), rhs))

\* A(i, j) = rhs;
WriteSubscripts ==
    \E i, j \in IndexExprs, rhs \in RhsExprs :
        EvalTree(AssignN(CallN("A", <<i, j>>), rhs))

\* c = {...};
AssignCell == \E lit \in CellLiterals : EvalTree(AssignN(Id("c"), CellLiteralN(lit)))

\* c{k} = 9;
WriteCell == \E i \in CellIndexExprs : EvalTree(AssignN(CellIndexN("c", i), Num(9)))

\* x = c{k};
ReadCell == \E i \in CellIndexExprs : EvalTree(AssignN(Id("x"), CellIndexN("c", i)))

\* for i = 1:2, c{i} = i; end
FillCell == EvalTree(FillLoopN)

\* function r = add2(a, b) ... end
DefineFunction == EvalTree(Add2DefN)

\* add2(args);
CallFunction == \E args \in Add2Args : EvalTree(ExprStmtN(CallN("add2", args)))

\* if cond, t = 1; else, t = 0; end
IfCondition == \E c \in ArrayConds : EvalTree(IfCondN(c.expr))

\* while cond, t = 2; break; end
WhileCondition == \E c \in ArrayConds : EvalTree(WhileCondN(c.expr))

\* t = cond && 1; and the like
ShortCircuit == \E c \in ArrayConds : \E s \in ShortCircuitN(c.expr) : EvalTree(s)

\* v = a:b;
ColonRange ==
    \E a \in ColonStarts, b \in ColonStops :
        EvalTree(AssignN(Id("v"), RangeN(Num(a), Num(b))))

\* v = a:s:b;
ColonStepRange ==
    \E a \in ColonStarts, step \in ColonSteps, b \in ColonStops :
        EvalTree(AssignN(Id("v"), StepRangeN(a, step, b)))

\* y = A(i);
ReadElement ==
    \E i \in {Num(k) : k \in ScalarSubs} \cup BadIndexExprs :
        EvalTree(AssignN(Id("y"), CallN("A", <<i>>)))

\* A(i) = 9; with a subscript that is no position
WriteBadIndex == \E i \in BadIndexExprs : EvalTree(AssignN(CallN("A", <<i>>), Num(9)))

\* A(i) = []; with a subscript that is no position
DeleteBadIndex == \E i \in BadIndexExprs : EvalTree(DeleteN("A", <<i>>))

InitArray ==
    /\ EngineInit
    /\ maxRecursionDepth_ = MaxDepth
    /\ ParserIdle
    /\ ValueIdle

NextArray ==
    \/ AssignMatrix
    \/ DeleteElements
    \/ DeleteRowsCols
    \/ WriteElements
    \/ WriteSubscripts
    \/ AssignCell
    \/ WriteCell
    \/ ReadCell
    \/ FillCell
    \/ DefineFunction
    \/ CallFunction
    \/ IfCondition
    \/ WhileCondition
    \/ ShortCircuit
    \/ ColonRange
    \/ ColonStepRange
    \/ ReadElement
    \/ WriteBadIndex
    \/ DeleteBadIndex

SpecArray == InitArray /\ [][NextArray]_vars

(***************************************************************************)
(* Properties of arrays (specification SpecArray).                         *)
(***************************************************************************)
\* The root scope binds name to a numeric (double) array.
IsMatrix(name) == RootBinds(name) /\ globalEnv_.vars[name].type = "DOUBLE"

\* The elements of the double array v that a one-subscript deletion with the
\* subscript tree i leaves, in column-major order.
Unselected(v, i) ==
    remainingFrom(v.data,
                  CASE i = ColonAllN -> [k \in 1..numel(v) |-> k - 1]
                    [] i = EmptyMatrixN -> <<>>
                    [] i.type = "NUMBER_LITERAL" -> <<i.numValue - 1>>
                    [] OTHER -> [k \in 1..Len(i.children[1].children) |->
                                   i.children[1].children[k].numValue - 1],
                  1)

\* C11: for every matrix A, the statement A([], :) = [] raises no error and
\* leaves A with the same shape and the same elements.
C11_EmptyRowDeleteIsNoOp ==
    [][(IsMatrix("A") /\ ast' = DeleteN("A", <<EmptyMatrixN, ColonAllN>>))
          => /\ lastStatus' = "ok"
             /\ globalEnv_'.vars["A"] = globalEnv_.vars["A"]]_vars

\* C12: A(idx) = [] with a single subscript on a numeric array leaves a row
\* vector of the elements not selected, in column-major order; the result is a
\* column vector when A was a column vector (more than one row, one column).
\* The deletions that leave no element are set aside.
C12_DeleteYieldsRowVector ==
    [][\A i \in IndexExprs :
          (IsMatrix("A") /\ ast' = DeleteN("A", <<i>>) /\ lastStatus' = "ok"
             /\ Unselected(globalEnv_.vars["A"], i) # <<>>)
             => LET v == globalEnv_.vars["A"]
                    left == Unselected(v, i)
                IN globalEnv_'.vars["A"] =
                      IF v.cols = 1 /\ v.rows > 1
                      THEN MV("DOUBLE", Len(left), 1, left)
                      ELSE MV("DOUBLE", 1, Len(left), left)]_vars

\* Every element of v sits in w at the (row, column) place it has in v.
GrowthKept(v, w) ==
    \A r \in 0..(v.rows - 1) : \A c \in 0..(v.cols - 1) :
        /\ r < w.rows
        /\ c < w.cols
        /\ w.data[c * w.rows + r + 1] = v.data[c * v.rows + r + 1]

\* Every place of w that v did not have and that is not among the (one-based,
\* column-major) places in written holds zero.
NewPlacesZero(v, w, written) ==
    \A p \in 1..numel(w) :
        (((p - 1) % w.rows >= v.rows \/ (p - 1) \div w.rows >= v.cols)
           /\ p \notin written)
              => w.data[p] = 0

\* C13: after an indexed write of a scalar past the extent of the array, by
\* one subscript (on a row vector, a column vector or a matrix) or by two,
\* every element stored before is still there at its (row, column) place and
\* every new place that was not written holds zero.
C13_GrowthKeepsElements ==
    [][/\ \A k \in ScalarSubs :
            (IsMatrix("A") /\ ast' = AssignN(CallN("A", <<Num(k)>>), Num(9))
               /\ k > numel(globalEnv_.vars["A"]) /\ lastStatus' = "ok")
               => /\ GrowthKept(globalEnv_.vars["A"], globalEnv_'.vars["A"])
                  /\ NewPlacesZero(globalEnv_.vars["A"], globalEnv_'.vars["A"], {k})
       /\ \A i, j \in ScalarSubs :
            (IsMatrix("A") /\ ast' = AssignN(CallN("A", <<Num(i), Num(j)>>), Num(9))
               /\ (i > globalEnv_.vars["A"].rows \/ j > globalEnv_.vars["A"].cols)
               /\ lastStatus' = "ok")
               => /\ GrowthKept(globalEnv_.vars["A"], globalEnv_'.vars["A"])
                  /\ NewPlacesZero(globalEnv_.vars["A"], globalEnv_'.vars["A"],
                                   {(j - 1) * globalEnv_'.vars["A"].rows + i})]_vars

\* The number of places the subscript tree i selects out of n (the elements of
\* the array for one subscript, its rows or columns for one of two).
SelectedCount(i, n) ==
    CASE i = ColonAllN -> n
      [] i = EmptyMatrixN -> 0
      [] i.type = "NUMBER_LITERAL" -> 1
      [] OTHER -> Len(i.children[1].children)

\* The number of elements of the one-row matrix literal rhs.
LiteralCount(rhs) == Len(rhs.children[1].children)

\* C14: an indexed assignment A(...) = B, with B a non-scalar array whose
\* element count differs from the number of selected places, raises an error.
C14_CountMismatchRaises ==
    [][\A rhs \in RhsExprs \ {Num(9)} :
          /\ \A i \in IndexExprs :
               (IsMatrix("A") /\ ast' = AssignN(CallN("A", <<i>>), rhs)
                  /\ LiteralCount(rhs) # SelectedCount(i, numel(globalEnv_.vars["A"])))
                  => lastStatus' = "error"
          /\ \A i, j \in IndexExprs :
               (IsMatrix("A") /\ ast' = AssignN(CallN("A", <<i, j>>), rhs)
                  /\ LiteralCount(rhs) # SelectedCount(i, globalEnv_.vars["A"].rows)
                                           * SelectedCount(j, globalEnv_.vars["A"].cols))
                  => lastStatus' = "error"]_vars

\* The root scope binds name to a cell array.
IsCellVar(name) == RootBinds(name) /\ globalEnv_.vars[name].type = "CELL"

\* C15: c{k} = v on an existing cell c with k greater than the current element
\* count raises no error and leaves c a cell of at least k elements whose k-th
\* element is v; the loop "for i = 1:2, c{i} = i; end" on the cell {} ends
\* without error with c{1} = 1 and c{2} = 2.
C15_CellAssignGrows ==
    [][/\ \A k \in CellSubs :
            (IsCellVar("c") /\ ast' = AssignN(CellIndexN("c", Num(k)), Num(9))
               /\ k > numel(globalEnv_.vars["c"]))
               => /\ lastStatus' = "ok"
                  /\ numel(globalEnv_'.vars["c"]) >= k
                  /\ globalEnv_'.vars["c"].data[k] = scalar(9)
       /\ (IsCellVar("c") /\ numel(globalEnv_.vars["c"]) = 0 /\ ast' = FillLoopN)
               => /\ lastStatus' = "ok"
                  /\ numel(globalEnv_'.vars["c"]) = 2
                  /\ globalEnv_'.vars["c"].data = <<scalar(1), scalar(2)>>]_vars

\* C16: a call of the user function add2, declared with two parameters, with
\* more than two arguments ends with an error.
C16_TooManyArgumentsRaises ==
    [][\A args \in Add2Args :
          ("add2" \in DOMAIN userFuncs_ /\ ast' = ExprStmtN(CallN("add2", args))
             /\ Len(args) > Len(userFuncs_["add2"].params))
             => lastStatus' = "error"]_vars

\* C17: with a condition that is a non-scalar numeric or logical array, or an
\* empty array, "if", "while", "&&" and "||" raise no error and take the
\* condition as true exactly when it has elements and all are nonzero.
C17_ArrayConditionTruth ==
    [][\A c \in ArrayConds :
          /\ ast' = IfCondN(c.expr)
                => /\ lastStatus' = "ok"
                   /\ globalEnv_'.vars["t"] = scalar(IF c.truth THEN 1 ELSE 0)
          /\ ast' = WhileCondN(c.expr)
                => /\ lastStatus' = "ok"
                   /\ IF c.truth THEN globalEnv_'.vars["t"] = scalar(2)
                                 ELSE globalEnv_' = globalEnv_
          /\ ast' \in ShortCircuitN(c.expr)
                => /\ lastStatus' = "ok"
                   /\ globalEnv_'.vars["t"] = logicalScalar(c.truth)]_vars

\* C18: for integers a, b and a nonzero step s, v = a:s:b leaves in v a row of
\* exactly max(0, floor((b - a) / s) + 1) elements, and v = a:b a row of
\* max(0, b - a + 1) elements.
C18_ColonCount ==
    [][\A a \in ColonStarts, b \in ColonStops :
          /\ ast' = AssignN(Id("v"), RangeN(Num(a), Num(b)))
                => /\ lastStatus' = "ok"
                   /\ numel(globalEnv_'.vars["v"]) = ExpectedCount(a, 1, b)
          /\ \A step \in ColonSteps :
                ast' = AssignN(Id("v"), StepRangeN(a, step, b))
                   => /\ lastStatus' = "ok"
                      /\ numel(globalEnv_'.vars["v"]) = ExpectedCount(a, step, b)]_vars

\* The statements that index the array A with the subscript i: the read, the
\* indexed assignment and the deletion.
ParenForms(i) ==
    {AssignN(Id("y"), CallN("A", <<i>>)), AssignN(CallN("A", <<i>>), Num(9)),
     DeleteN("A", <<i>>)}

\* The statements that index the cell c with the subscript i between braces.
BraceForms(i) ==
    {AssignN(Id("x"), CellIndexN("c", i)), AssignN(CellIndexN("c", i), Num(9))}

\* C20: with a subscript that is zero, negative or no integer (0, -1, pi), the
\* paren read, the indexed assignment and the deletion on an array, and the
\* brace read and write on a cell, end with an error and leave every variable
\* as it was.  An execution whose behaviour is undefined counts as an error.
C20_BadIndexRaises ==
    [][\A i \in BadIndexExprs :
          ((IsMatrix("A") /\ ast' \in ParenForms(i))
              \/ (IsCellVar("c") /\ ast' \in BraceForms(i)))
             => /\ lastStatus' \in {"error", "ub"}
                /\ globalEnv_' = globalEnv_]_vars

(***************************************************************************)
(* The lexer on source texts of digits, blanks, operators and brackets.    *)
(* A text is a sequence of one-character strings; positions are 1-based    *)
(* (pos_ + 1).  The branches of Lexer::tokenize for strings, identifiers,  *)
(* comments and line ends are not taken on these texts and are left out.   *)
(***************************************************************************)
isDigit(c) == c \in {"0", "1", "2", "3", "4", "5", "6", "7", "8", "9"}

isAlpha(c) ==
    c \in {"a", "b", "c", "d", "e", "f", "g", "h", "i", "j", "k", "l", "m", "n", "o",
           "p", "q", "r", "s", "t", "u", "v", "w", "x", "y", "z",
           "A", "B", "C", "D", "E", "F", "G", "H", "I", "J", "K", "L", "M", "N", "O",
           "P", "Q", "R", "S", "T", "U", "V", "W", "X", "Y", "Z"}

\* Lexer::peek : the character at pos, "" (for '\0') past the end
peek(src, pos) == IF pos <= Len(src) THEN src[pos] ELSE ""

\* Lexer::isValueToken
isValueToken(t) ==
    t \in {"NUMBER", "IMAG_NUMBER", "STRING", "IDENTIFIER", "RPAREN", "RBRACKET", "RBRACE",
           "APOSTROPHE", "DOT_APOSTROPHE", "KW_END", "KW_TRUE", "KW_FALSE"}

\* Lexer::inMatrixContext on bracketStack_
inMatrixContext(stack) == stack # <<>> /\ stack[Len(stack)] \in {"[", "{"}

\* Lexer::closingFor
closingFor(open) ==
    CASE open = "(" -> ")"
      [] open = "[" -> "]"
      [] open = "{" -> "}"
      [] OTHER -> "?"

\* while (peek() == ' ' || peek() == '\t') advance();
RECURSIVE skipBlanks(_, _)
skipBlanks(src, pos) ==
    IF pos <= Len(src) /\ src[pos] \in {" ", "\t"} THEN skipBlanks(src, pos + 1) ELSE pos

\* Lexer::insertImplicitComma : tokens_ after the call at position pos
insertImplicitComma(src, pos, tokens, stack) ==
    LET scanPos == skipBlanks(src, pos)
        next == src[scanPos]
    IN IF ~inMatrixContext(stack) \/ tokens = <<>> THEN tokens
       ELSE IF ~isValueToken(tokens[Len(tokens)].type) THEN tokens
       ELSE IF scanPos > Len(src) THEN tokens
       ELSE IF next \in {"+", "-"} THEN tokens
       ELSE IF next = "." /\ ~isDigit(peek(src, scanPos + 1)) THEN tokens
       ELSE IF isDigit(next) \/ isAlpha(next)
               \/ next \in {"_", "(", "[", "{", "'", "\"", "~", "@", "."}
       THEN Append(tokens, Tok("COMMA", ","))
       ELSE tokens

\* Lexer::skipSpacesAndComments : pos_ and tokens_ after the call
RECURSIVE skipSpacesAndComments(_, _, _, _)
skipSpacesAndComments(src, pos, tokens, stack) ==
    IF pos > Len(src) THEN [pos |-> pos, tokens |-> tokens]
    ELSE IF src[pos] \in {" ", "\t"} /\ inMatrixContext(stack)
    THEN skipSpacesAndComments(src, skipBlanks(src, pos),
                               insertImplicitComma(src, skipBlanks(src, pos), tokens, stack),
                               stack)
    ELSE IF src[pos] \in {" ", "\t", "\r"}
    THEN skipSpacesAndComments(src, pos + 1, tokens, stack)
    ELSE [pos |-> pos, tokens |-> tokens]

\* Lexer::readNumber on a decimal integer: the position after its digits
RECURSIVE digitsEnd(_, _)
digitsEnd(src, pos) ==
    IF pos <= Len(src) /\ isDigit(src[pos]) THEN digitsEnd(src, pos + 1) ELSE pos

\* src_.substr(start, end - start)
RECURSIVE substr(_, _, _)
substr(src, start, end) ==
    IF start >= end THEN "" ELSE src[start] \o substr(src, start + 1, end)

\* Lexer::readOperator : the token type of a one-character operator, "" when
\* the character starts none
operatorType(c) ==
    CASE c = "+" -> "PLUS"
      [] c = "-" -> "MINUS"
      [] c = "*" -> "STAR"
      [] c = "/" -> "SLASH"
      [] c = "^" -> "CARET"
      [] c = "(" -> "LPAREN"
      [] c = ")" -> "RPAREN"
      [] c = "[" -> "LBRACKET"
      [] c = "]" -> "RBRACKET"
      [] c = "{" -> "LBRACE"
      [] c = "}" -> "RBRACE"
      [] c = "," -> "COMMA"
      [] c = ";" -> "SEMICOLON"
      [] c = ":" -> "COLON"
      [] OTHER -> ""

LexOk(tokens) == [ok |-> TRUE, tokens |-> tokens]
LexError(tokens) == [ok |-> FALSE, tokens |-> tokens]

\* Lexer::tokenize : the main loop from position pos on
RECURSIVE tokenizeFrom(_, _, _, _)
RECURSIVE tokenizeAt(_, _, _)
tokenizeAt(src, at, stack) ==
    LET c == src[at.pos]
        add(type, text) == Append(at.tokens, Tok(type, text))
    IN IF at.pos > Len(src)
       THEN (IF stack # <<>> THEN LexError(at.tokens) ELSE LexOk(Append(at.tokens, EOFTok)))
       ELSE IF isDigit(c)
       THEN tokenizeFrom(src, digitsEnd(src, at.pos),
                         add("NUMBER", substr(src, at.pos, digitsEnd(src, at.pos))), stack)
       ELSE IF c \in {"(", "[", "{"}
       THEN tokenizeFrom(src, at.pos + 1, add(operatorType(c), c), Append(stack, c))
       ELSE IF c \in {")", "]", "}"}
       THEN (IF stack = <<>> \/ closingFor(stack[Len(stack)]) # c THEN LexError(at.tokens)
             ELSE tokenizeFrom(src, at.pos + 1, add(operatorType(c), c),
                               SubSeq(stack, 1, Len(stack) - 1)))
       ELSE IF operatorType(c) # ""
       THEN tokenizeFrom(src, at.pos + 1, add(operatorType(c), c), stack)
       ELSE LexError(at.tokens)

tokenizeFrom(src, pos, tokens, stack) ==
    tokenizeAt(src, skipSpacesAndComments(src, pos, tokens, stack), stack)

\* Lexer::tokenize
tokenize(src) == tokenizeFrom(src, 1, <<>>, <<>>)

(***************************************************************************)
(* The lexer and the parser as a state machine: Engine::eval on a source   *)
(* text is Lexer::tokenize, Parser::parse, then execNode.                  *)
(***************************************************************************)
\* The blanks between an operand and a sign: none, one, two.
Gaps == {<<>>, <<" ">>, <<" ", " ">>}

\* [a g1 s g2 b] : two operands with a sign between them
SignText(a, g1, s, g2, b) == <<"[", a>> \o g1 \o <<s>> \o g2 \o <<b, "]">>

\* [a b]
PairText(a, b) == <<"[", a, " ", b, "]">>

\* [-1 -2; -3 -4]
NegMatrixText ==
    <<"[", "-", "1", " ", "-", "2", ";", " ", "-", "3", " ", "-", "4", "]">>

FirstOperands == {"1", "3"}
SecondOperands == {"1", "2"}
Signs == {"+", "-"}

LexInputs ==
    {SignText(a, g1, s, g2, b) :
        a \in FirstOperands, g1 \in Gaps, s \in Signs, g2 \in Gaps, b \in SecondOperands}
    \cup {PairText(a, b) : a \in FirstOperands, b \in SecondOperands}
    \cup {NegMatrixText}

InitLex ==
    /\ src_ \in LexInputs
    /\ tokens_ = <<>>
    /\ ast = NullNode
    /\ parseStatus = "none"
    /\ EngineInit
    /\ maxRecursionDepth_ = MaxDepth
    /\ ValueIdle

\* Lexer::tokenize on src_
Tokenize ==
    /\ parseStatus = "none"
    /\ LET r == tokenize(src_)
       IN /\ tokens_' = r.tokens
          /\ parseStatus' = IF r.ok THEN "lexed" ELSE "error"
    /\ UNCHANGED <<src_, ast, engineVars, valueVars>>

\* Parser::parse on the tokens of the lexer
ParseTokens ==
    /\ parseStatus = "lexed"
    /\ LET r == parse(tokens_)
       IN /\ parseStatus' = IF r.ok THEN "ok" ELSE "error"
          /\ ast' = r.node
    /\ UNCHANGED <<src_, tokens_, engineVars, valueVars>>

NextLex == Tokenize \/ ParseTokens \/ Run

SpecLex == InitLex /\ [][NextLex]_vars

(***************************************************************************)
(* Properties of the lexer (specification SpecLex).                        *)
(***************************************************************************)
\* The text has been through the lexer and the parser.
Parsed == parseStatus \in {"ok", "error"}

\* The rows of the matrix literal that is the one statement of the program.
LiteralRows == ast.children[1].children[1].children

\* C19: between brackets, a sign after blanks and directly before its operand
\* starts a second element ([1 -2] has two elements), a sign with blanks on
\* both sides joins its operands in one element ([1 - 2] has one), and
\* [-1 -2; -3 -4] has two rows of two elements.
C19_SignSpacing ==
    /\ \A a \in FirstOperands, g1 \in Gaps \ {<<>>}, s \in Signs, g2 \in Gaps,
          b \in SecondOperands :
          (src_ = SignText(a, g1, s, g2, b) /\ Parsed)
             => /\ parseStatus = "ok"
                /\ Len(LiteralRows) = 1
                /\ Len(LiteralRows[1].children) = IF g2 = <<>> THEN 2 ELSE 1
    /\ (src_ = NegMatrixText /\ Parsed)
          => /\ parseStatus = "ok"
             /\ Len(LiteralRows) = 2
             /\ Len(LiteralRows[1].children) = 2
             /\ Len(LiteralRows[2].children) = 2

(***************************************************************************)
(* Scopes as a state machine: Engine::eval called on one source text at a  *)
(* time (given as the statements the parser builds for it, kept in ast),   *)
(* on an engine that starts as constructed.  One of the texts is a         *)
(* function file; the others call its functions from the top level.       *)
(***************************************************************************)
\* The number of source texts evaluated on one engine, the function file
\* not counted.
MaxScopeEvals == 2

\* The function file:
\*   function r = local_test(), x = 5; r = x; end
\*   function inner(), x = 7; end
\*   function r = outer(), x = 1; inner(); r = x; end
\*   function setg(), global g; g = 42; end
\*   function r = getg(), global g; r = g; end
\* Parser::parseStatement on a statement no semicolon follows.
Unterminated(stmt) == [stmt EXCEPT !.suppressOutput = FALSE]

\*   function r = useg(g), global g; r = g; end
\*   function r = bump(), global n; n = n + 1; r = n; end
\*   function show(), y = 5, end
\*   function [a, b] = two(), a = 1; b = 2; end
\*   function r = isempty(v), r = 77; end
\*   function r = pick(v), r = 55; end
\*   function r = class(v), r = 66; end
\*   function poke(), A(1) = 9; end
\*   function pokef(), s.f = 9; end
\*   function pokec(), c{1} = 9; end
\*   function dele(), A(1) = []; end
\*   function stop(), break; end
\*   function skip(), continue; end
ScopeLibrary ==
    <<FunctionDefN("local_test", <<>>, <<"r">>,
        <<AssignN(Id("x"), Num(5)), AssignN(Id("r"), Id("x"))>>),
      FunctionDefN("inner", <<>>, <<>>, <<AssignN(Id("x"), Num(7))>>),
      FunctionDefN("outer", <<>>, <<"r">>,
        <<AssignN(Id("x"), Num(1)), ExprStmtN(CallN("inner", <<>>)),
          AssignN(Id("r"), Id("x"))>>),
      FunctionDefN("setg", <<>>, <<>>,
        <<GlobalN(<<"g">>), AssignN(Id("g"), Num(42))>>),
      FunctionDefN("getg", <<>>, <<"r">>,
        <<GlobalN(<<"g">>), AssignN(Id("r"), Id("g"))>>),
      FunctionDefN("useg", <<"g">>, <<"r">>,
        <<GlobalN(<<"g">>), AssignN(Id("r"), Id("g"))>>),
      FunctionDefN("bump", <<>>, <<"r">>,
        <<GlobalN(<<"n">>), AssignN(Id("n"), BinaryNode("+", Id("n"), Num(1))),
          AssignN(Id("r"), Id("n"))>>),
      FunctionDefN("show", <<>>, <<>>, <<Unterminated(AssignN(Id("y"), Num(5)))>>),
      FunctionDefN("two", <<>>, <<"a", "b">>,
        <<AssignN(Id("a"), Num(1)), AssignN(Id("b"), Num(2))>>),
      FunctionDefN("isempty", <<"v">>, <<"r">>, <<AssignN(Id("r"), Num(77))>>),
      FunctionDefN("pick", <<"v">>, <<"r">>, <<AssignN(Id("r"), Num(55))>>),
      FunctionDefN("class", <<"v">>, <<"r">>, <<AssignN(Id("r"), Num(66))>>),
      FunctionDefN("poke", <<>>, <<>>, <<AssignN(CallN("A", <<Num(1)>>), Num(9))>>),
      FunctionDefN("pokef", <<>>, <<>>, <<AssignN(FieldN(Id("s"), "f"), Num(9))>>),
      FunctionDefN("pokec", <<>>, <<>>, <<AssignN(CellIndexN("c", Num(1)), Num(9))>>),
      FunctionDefN("dele", <<>>, <<>>, <<DeleteN("A", <<Num(1)>>)>>),
      FunctionDefN("stop", <<>>, <<>>, <<BreakN>>),
      FunctionDefN("skip", <<>>, <<>>, <<ContinueN>>)>>

\* Engine::eval on the source text whose statements are stmts:
\* execNode(ast, globalEnv_).
EvalSource(stmts) ==
    /\ evalCount < MaxScopeEvals
    /\ EngineUpdate(execNode(Block(stmts), <<>>, EngineState))
    /\ evalCount' = evalCount + 1
    /\ ast' = Block(stmts)
    /\ parseStatus' = "ok"
    /\ UNCHANGED <<src_, tokens_, lastProgram, valueVars>>

\* Engine::eval on the function file, once: it defines the user functions.
LoadFunctions ==
    /\ "local_test" \notin DOMAIN userFuncs_
    /\ EngineUpdate(execNode(Block(ScopeLibrary), <<>>, EngineState))
    /\ ast' = Block(ScopeLibrary)
    /\ parseStatus' = "ok"
    /\ UNCHANGED <<src_, tokens_, evalCount, lastProgram, valueVars>>

\* The function file has been evaluated.
Loaded == "local_test" \in DOMAIN userFuncs_

\* The values the top level assigns to its variables.
RootValues == {100, 3}

\* x = v;   g = v;
AssignRoot ==
    \E name \in {"x", "g"}, v \in RootValues : EvalSource(<<AssignN(Id(name), Num(v))>>)

\* r = local_test();   r = outer();
LocalAssignCalls ==
    {<<AssignN(Id("r"), CallN("local_test", <<>>))>>,
     <<AssignN(Id("r"), CallN("outer", <<>>))>>}

CallLocalAssign == \E p \in LocalAssignCalls : EvalSource(p)

\* global g;
DeclareGlobal == EvalSource(<<GlobalN(<<"g">>)>>)

\* r = g;   and   g = 3; global g; r = g;   (a local binding, then the
\* declaration)
GlobalReads ==
    {<<AssignN(Id("r"), Id("g"))>>,
     <<AssignN(Id("g"), Num(3)), GlobalN(<<"g">>), AssignN(Id("r"), Id("g"))>>}

ReadG == \E p \in GlobalReads : EvalSource(p)

\* setg();   and   global g; setg();
GlobalWriteCalls ==
    {<<ExprStmtN(CallN("setg", <<>>))>>,
     <<GlobalN(<<"g">>), ExprStmtN(CallN("setg", <<>>))>>}

CallSetG == \E p \in GlobalWriteCalls : EvalSource(p)

\* r = getg();   r = useg(7);
GlobalReadCalls ==
    {<<AssignN(Id("r"), CallN("getg", <<>>))>>,
     <<AssignN(Id("r"), CallN("useg", <<Num(7)>>))>>}

CallGlobalRead == \E p \in GlobalReadCalls : EvalSource(p)

\* global n; n = 0;   the start of the texts that count the calls of bump.
CounterReset == <<GlobalN(<<"n">>), AssignN(Id("n"), Num(0))>>

\* The left operands of && and || : 0, 1 and 2.
LeftOperands == {0, 1, 2}

\* The right operands with an effect: bump(), which counts its calls in the
\* global n, and error('boom'), which throws.
RightOperands == {CallN("bump", <<>>), CallN("error", <<StrN("boom")>>)}

\* global n; n = 0; t = a op b;
LogicalText(a, op, b) ==
    CounterReset \o <<AssignN(Id("t"), BinaryNode(op, Num(a), b))>>

ShortCircuitEffects ==
    \E a \in LeftOperands, op \in {"&&", "||"}, b \in RightOperands :
        EvalSource(LogicalText(a, op, b))

\* x = 5;   7;   [a, b] = two();   who;   whos;   show();
TerminatedStatements ==
    {AssignN(Id("x"), Num(5)), ExprStmtN(Num(7)),
     MultiAssignN(<<"a", "b">>, CallN("two", <<>>)),
     ExprStmtN(Id("who")), ExprStmtN(Id("whos")), ExprStmtN(CallN("show", <<>>))}

\* One statement, with and without its semicolon.
RunStatement ==
    \E s \in TerminatedStatements, semi \in BOOLEAN :
        EvalSource(<<IF semi THEN s ELSE Unterminated(s)>>)

\* What the evaluation of the terminated statement s writes that is not the
\* display of its own result: the listing of who and whos, and the display
\* of y by the unterminated statement of show's body.
WrittenBelow(s) ==
    IF s = ExprStmtN(Id("who")) THEN <<"who">>
    ELSE IF s = ExprStmtN(Id("whos")) THEN <<"whos">>
    ELSE IF s = ExprStmtN(CallN("show", <<>>)) THEN <<"y">>
    ELSE <<>>

\* The names called: isempty is registered and user-defined, pick is
\* user-defined, class is a core command and user-defined, nofn is nothing.
CalledNames == {"isempty", "pick", "class", "nofn"}

\* What the name is bound to when it is called.
BindingKinds == {"none", "handle", "double", "char", "empty", "struct"}

\* name = @(v) 9;   name = [10 20];   name = 'ab';   name = [];   name.f = 1;
Binding(name, kind) ==
    CASE kind = "none" -> <<>>
      [] kind = "handle" -> <<AssignN(Id(name), AnonFuncN(<<"v">>, Num(9)))>>
      [] kind = "double" -> <<AssignN(Id(name), MatrixN(<< <<10, 20>> >>))>>
      [] kind = "char" -> <<AssignN(Id(name), StrN("ab"))>>
      [] kind = "empty" -> <<AssignN(Id(name), EmptyMatrixN)>>
      [] kind = "struct" -> <<AssignN(FieldN(Id(name), "f"), Num(1))>>

\* <binding>; r = name(1);
ResolveText(name, kind) ==
    Binding(name, kind) \o <<AssignN(Id("r"), CallN(name, <<Num(1)>>))>>

ResolveCall ==
    \E name \in CalledNames, kind \in BindingKinds : EvalSource(ResolveText(name, kind))

\* The last text ended the way how says: r holds what the handle, the index
\* read, the core command, the registered function or the user function of
\* that name gives for the argument 1, or an error was raised.
Resolves(how, name, kind) ==
    IF how = "error" THEN lastStatus = "error"
    ELSE /\ lastStatus = "ok"
         /\ RootBinds("r")
         /\ globalEnv_.vars["r"] =
               CASE how = "handle" -> scalar(9)
                 [] how = "index" -> (IF kind = "char" THEN fromString("a") ELSE scalar(10))
                 [] how = "builtin" -> fromString("double")
                 [] how = "external" -> logicalScalar(FALSE)
                 [] how = "user" -> scalar(CASE name = "isempty" -> 77
                                            [] name = "pick" -> 55
                                            [] OTHER -> 66)

\* The order of Engine::execCall: handle, index read, core command, registry,
\* user function, error.
ResolutionOrder(name, kind, funcs) ==
    IF kind = "handle" THEN "handle"
    ELSE IF kind \in {"double", "char"} THEN "index"
    ELSE IF name \in BuiltinNames THEN "builtin"
    ELSE IF name \in ExternalNames THEN "external"
    ELSE IF name \in funcs THEN "user"
    ELSE "error"

\* The order with every variable in front of every function and no core
\* command: handle, index read, registry, user function, error.
VariableFirstOrder(name, kind, funcs) ==
    IF kind = "handle" THEN "handle"
    ELSE IF kind \in {"double", "char"} THEN "index"
    ELSE IF kind # "none" THEN "error"
    ELSE IF name \in ExternalNames THEN "external"
    ELSE IF name \in funcs THEN "user"
    ELSE "error"

\* The text starts from a root where the binding statement gives the name
\* the kind: a name of kind none or struct is not bound before.
StartsAs(name, kind) == kind \in {"none", "struct"} => ~RootBinds(name)

\* The callees of the texts that count the evaluations of an argument: h is
\* a variable that holds a handle, class a core command, isempty a registered
\* function, pick a user function.
Callees == {"h", "class", "isempty", "pick"}

\* h = @(v) 9; global n; n = 0; r = name(bump());
CountText(name) ==
    <<AssignN(Id("h"), AnonFuncN(<<"v">>, Num(9)))>> \o CounterReset
        \o <<AssignN(Id("r"), CallN(name, <<CallN("bump", <<>>)>>))>>

CallWithCountedArgument == \E name \in Callees : EvalSource(CountText(name))

InitScope ==
    /\ EngineInit
    /\ maxRecursionDepth_ = MaxDepth
    /\ ParserIdle
    /\ ValueIdle

NextScope ==
    \/ LoadFunctions
    \/ AssignRoot
    \/ CallLocalAssign
    \/ DeclareGlobal
    \/ ReadG
    \/ CallSetG
    \/ CallGlobalRead
    \/ ShortCircuitEffects
    \/ RunStatement

SpecScope == InitScope /\ [][NextScope]_vars

\* The calls of a name: the function file and the texts that call.
NextCall ==
    \/ LoadFunctions
    \/ ResolveCall
    \/ CallWithCountedArgument

SpecCall == InitScope /\ [][NextCall]_vars

\* A = [1 2 3];   s.f = 1;   c = {1, 2};   at top level.
TargetTexts ==
    [A |-> <<AssignN(Id("A"), MatrixN(<< <<1, 2, 3>> >>))>>,
     s |-> <<AssignN(FieldN(Id("s"), "f"), Num(1))>>,
     c |-> <<AssignN(Id("c"), CellLiteralN(<<Num(1), Num(2)>>))>>]

AssignTarget == \E name \in DOMAIN TargetTexts : EvalSource(TargetTexts[name])

\* The functions whose body writes into a name they do not bind, and the name.
Writers == [poke |-> "A", pokef |-> "s", pokec |-> "c", dele |-> "A"]

\* poke();   pokef();   pokec();   dele();
WriterCall(f) == <<ExprStmtN(CallN(f, <<>>))>>

CallWriter == \E f \in DOMAIN Writers : EvalSource(WriterCall(f))

\* n = 0; for k = 1:3, f(); n = n + 1; end
LoopText(f) ==
    <<AssignN(Id("n"), Num(0)),
      ForN("k", RangeN(Num(1), Num(3)),
           <<ExprStmtN(CallN(f, <<>>)),
             AssignN(Id("n"), BinaryNode("+", Id("n"), Num(1)))>>)>>

\* The loop around a call of stop, of skip and of show.
LoopAroundCall == \E f \in {"stop", "skip", "show"} : EvalSource(LoopText(f))

\* The positions written: inside the two elements, and past them.
WritePositions == {1, 2, 3, 5}

\* w = 'ab'; w(k) = 'c';   and   v = [1 2]; v(k) = 9;
IndexedWriteText(kind, k) ==
    IF kind = "char"
    THEN <<AssignN(Id("w"), StrN("ab")), AssignN(CallN("w", <<Num(k)>>), StrN("c"))>>
    ELSE <<AssignN(Id("v"), MatrixN(<< <<1, 2>> >>)), AssignN(CallN("v", <<Num(k)>>), Num(9))>>

WriteAt ==
    \E kind \in {"char", "double"}, k \in WritePositions : EvalSource(IndexedWriteText(kind, k))

\* The calls that write and the loops around a call.
NextFrame ==
    \/ LoadFunctions
    \/ AssignTarget
    \/ CallWriter
    \/ LoopAroundCall
    \/ WriteAt

SpecFrame == InitScope /\ [][NextFrame]_vars

(***************************************************************************)
(* Properties of scopes (specification SpecScope).                         *)
(***************************************************************************)
\* The binding of name in the scope sc: its value, NullValue when unbound.
BindingIn(sc, name) == IF name \in DOMAIN sc.vars THEN sc.vars[name] ELSE NullValue

\* C21: a plain assignment x = v in the body of a user function that does not
\* declare x global changes the binding of x neither in the root environment
\* nor in the caller's: after r = local_test() (x = 5 in the body) the root
\* binds x as before, and outer, which sets x = 1 and calls inner (x = 7 in
\* its body), returns 1.
C21_LocalAssignStaysLocal ==
    [][(Loaded /\ ast' \in {Block(p) : p \in LocalAssignCalls})
          => /\ lastStatus' = "ok"
             /\ BindingIn(globalEnv_', "x") = BindingIn(globalEnv_, "x")
             /\ globalStore_' = globalStore_
             /\ ast' = Block(<<AssignN(Id("r"), CallN("local_test", <<>>))>>)
                   => globalEnv_'.vars["r"] = scalar(5)
             /\ ast' = Block(<<AssignN(Id("r"), CallN("outer", <<>>))>>)
                   => globalEnv_'.vars["r"] = scalar(1)]_vars

\* local_test has run on an engine whose root binds x to 100, and x is 100.
C21_Witness ==
    /\ ast = Block(<<AssignN(Id("r"), CallN("local_test", <<>>))>>)
    /\ lastStatus = "ok"
    /\ RootHas("x", scalar(100))
    /\ RootHas("r", scalar(5))

\* C22: in a scope that has declared g global, a read of g yields the value
\* the global store holds and a write of g goes to the global store, also
\* when the scope bound g locally before the declaration (the root after
\* g = 3, useg with its parameter g); so the 42 that setg writes is what the
\* root and getg read.
C22_GlobalReadsAndWrites ==
    [][/\ (ast' \in {Block(p) : p \in GlobalReads} /\ "g" \in globalEnv_'.globals)
            => /\ lastStatus' = "ok"
               /\ globalEnv_'.vars["r"] = GlobalStore_get(globalStore_', "g")
       /\ \A v \in RootValues :
            (ast' = Block(<<AssignN(Id("g"), Num(v))>>) /\ "g" \in globalEnv_.globals)
               => /\ lastStatus' = "ok"
                  /\ GlobalStore_get(globalStore_', "g") = scalar(v)
                  /\ globalEnv_' = globalEnv_
       /\ (Loaded /\ ast' \in {Block(p) : p \in GlobalWriteCalls})
            => /\ lastStatus' = "ok"
               /\ GlobalStore_get(globalStore_', "g") = scalar(42)
               /\ BindingIn(globalEnv_', "g") = BindingIn(globalEnv_, "g")
       /\ (Loaded /\ ast' \in {Block(p) : p \in GlobalReadCalls})
            => /\ lastStatus' = "ok"
               /\ globalEnv_'.vars["r"] = GlobalStore_get(globalStore_', "g")
               /\ "g" \in DOMAIN globalStore_ => globalStore_' = globalStore_]_vars

\* setg has written 42 and getg, called afterwards, has read it.
C22_Witness ==
    /\ ast = Block(<<AssignN(Id("r"), CallN("getg", <<>>))>>)
    /\ lastStatus = "ok"
    /\ GlobalStore_get(globalStore_, "g") = scalar(42)
    /\ RootHas("r", scalar(42))

\* C23: a || b with a true and a && b with a false do not evaluate b: the
\* call bump() does not count (the global n stays 0), error('boom') raises
\* nothing, and the result is the logical scalar true, respectively false.
C23_ShortCircuitSkipsRight ==
    [][\A a \in LeftOperands, op \in {"&&", "||"}, b \in RightOperands :
          (ast' = Block(LogicalText(a, op, b)) /\ ((op = "||") = (a # 0)))
             => /\ lastStatus' = "ok"
                /\ globalEnv_'.vars["t"] = logicalScalar(op = "||")
                /\ GlobalStore_get(globalStore_', "n") = scalar(0)]_vars

\* 1 || bump() has run on an engine that defines bump, and n is 0.
C23_Witness ==
    /\ ast = Block(LogicalText(1, "||", CallN("bump", <<>>)))
    /\ "bump" \in DOMAIN userFuncs_
    /\ lastStatus = "ok"
    /\ RootHas("t", logicalScalar(TRUE))
    /\ GlobalStore_get(globalStore_, "n") = scalar(0)

\* C24 (as stated): the evaluation of a statement terminated by a semicolon
\* writes nothing to the output sink.
C24_SemicolonWritesNothing ==
    [][\A s \in TerminatedStatements : ast' = Block(<<s>>) => output' = <<>>]_vars

\* C24 (amended): a statement terminated by a semicolon does not display its
\* own result: neither the variable it assigns, nor the variables of a
\* multiple assignment, nor ans.  The sink receives only what the statement
\* runs: the listing of who and whos, the display of an unterminated
\* statement in the body of a function it calls.
C24_SemicolonHidesResult ==
    [][\A s \in TerminatedStatements :
          (ast' = Block(<<s>>) /\ lastStatus' = "ok")
             => /\ output' = WrittenBelow(s)
                /\ (s.type = "EXPR_STMT" /\ ~RootBinds("ans")) => ~RootBinds("ans")']_vars

\* x = 5; has run: x is assigned and nothing was written.
C24_Witness ==
    /\ ast = Block(<<AssignN(Id("x"), Num(5))>>)
    /\ RootHas("x", scalar(5))
    /\ lastStatus = "ok"
    /\ output = <<>>

\* C25 (as stated): name(args) resolves in the order handle variable, index
\* read of a numeric, logical, char or cell variable, registered function,
\* user-defined function, error, and a variable of any kind shadows a
\* function of its name.
C25_VariableAlwaysShadows ==
    [][\A name \in CalledNames, kind \in BindingKinds :
          (ast' = Block(ResolveText(name, kind)) /\ StartsAs(name, kind))
             => Resolves(VariableFirstOrder(name, kind, DOMAIN userFuncs_), name, kind)']_vars

\* C25 (amended): name(args) resolves in the order handle variable, index
\* read of a numeric, logical, char or cell variable, core command (clear,
\* who, whos, exist, class), registered function, user-defined function,
\* error.  A variable that holds a handle or a numeric, logical, char or cell
\* value shadows a function of its name; a variable of another kind (empty,
\* struct) does not; a core command shadows a registered function and a
\* registered function a user-defined one.
C25_ResolutionOrder ==
    [][\A name \in CalledNames, kind \in BindingKinds :
          (ast' = Block(ResolveText(name, kind)) /\ StartsAs(name, kind))
             => Resolves(ResolutionOrder(name, kind, DOMAIN userFuncs_), name, kind)']_vars

\* isempty = []; r = isempty(1); has run with the user function isempty
\* defined: the registered isempty answered.
C25_Witness ==
    /\ ast = Block(ResolveText("isempty", "empty"))
    /\ "isempty" \in DOMAIN userFuncs_
    /\ RootHas("isempty", empty)
    /\ RootHas("r", logicalScalar(FALSE))

\* C26: in every state, also the one an assignment that raised an error
\* leaves, a variable of kind EMPTY has no elements.
C26_EmptyHasNoElements ==
    \A name \in DOMAIN globalEnv_.vars :
        globalEnv_.vars[name].type = "EMPTY" => numel(globalEnv_.vars[name]) = 0

\* C27: the call name(bump()) evaluates its argument exactly once, whichever
\* way the name resolves: after  n = 0; r = name(bump());  the counter n of
\* bump's calls is 1 for a handle variable, a core command, a registered
\* function and a user function alike.
C27_ArgumentEvaluatedOnce ==
    [][\A name \in Callees :
          (/\ ast' = Block(CountText(name))
           /\ Loaded
           /\ name # "h" => ~RootBinds(name))
             => /\ lastStatus' = "ok"
                /\ GlobalStore_get(globalStore_', "n") = scalar(1)]_vars

\* C28: an indexed assignment, a field assignment, a cell assignment or a
\* deletion in the body of a user function, on a name the function neither
\* takes as a parameter, nor assigned, nor declared global, leaves the
\* variable of that name in the root environment as it was.
C28_BodyWriteLeavesRoot ==
    [][\A f \in DOMAIN Writers :
          (ast' = Block(WriterCall(f)) /\ Loaded /\ RootBinds(Writers[f]))
             => /\ RootBinds(Writers[f])'
                /\ globalEnv_'.vars[Writers[f]] = globalEnv_.vars[Writers[f]]]_vars

\* C30: a break or a continue in the body of a user function, outside any
\* loop of that body, neither ends nor advances the caller's loop: the three
\* passes of  n = 0; for k = 1:3, f(); n = n + 1; end  all reach n = n + 1.
C30_SignalStaysInFrame ==
    [][\A f \in {"stop", "skip"} :
          (ast' = Block(LoopText(f)) /\ Loaded) => RootHas("n", scalar(3))']_vars

\* C29: an indexed assignment stores inside the target's storage only: a
\* write at a position past the extent grows the target first, the char
\* array w = 'ab' as the numeric v = [1 2], so that no write is an
\* out-of-bounds store and the element written is there afterwards.
C29_WriteInsideStorage ==
    [][\A kind \in {"char", "double"}, k \in WritePositions :
          ast' = Block(IndexedWriteText(kind, k))
             => /\ lastStatus' = "ok"
                /\ LET name == IF kind = "char" THEN "w" ELSE "v"
                   IN /\ k <= numel(globalEnv_'.vars[name])
                      /\ globalEnv_'.vars[name].data[k] = (IF kind = "char" THEN "c" ELSE 9)]_vars

====
